---- MODULE Spec2Model ----
(***************************************************************************)
(* The ML analysis pipeline of the asset monitor: the PredictionService    *)
(* orchestrator (ml-service/services/prediction_service.py) and the three  *)
(* analyzers it drives (ml-service/models/*.py), over a document store     *)
(* with the collections telemetries, assets, ml_predictions and alerts.    *)
(*                                                                         *)
(* Numbers: percentages and hours are integers.  Quantities the code       *)
(* rounds are kept in the rounded unit: days_remaining in tenths of a day  *)
(* (round(x, 1)), confidence in hundredths (round(x, 2)), anomaly scores   *)
(* in thousandths (round(x, 3)).  Comparisons of means, slopes and R^2     *)
(* with thresholds are done by cross-multiplication, so they are exact.    *)
(***************************************************************************)
EXTENDS Integers, Sequences, FiniteSets, TLC

----------------------------------------------------------------------------
(* Configuration and thresholds of the code.                               *)

\* config.py: minimum telemetry points needed for prediction
MINIMUM_DATA_POINTS == 3
\* config.py: alert if disk full in < 7 days
DISK_FULL_WARNING_DAYS == 7
\* run_disk_prediction: severity High below 3 days
DISK_HIGH_SEVERITY_DAYS == 3
\* run_anomaly_detection: len(recent_data) < 5
MIN_RECENT_POINTS == 5
\* run_anomaly_detection: Medium alert from 3 anomalies on
MULTIPLE_ANOMALIES == 3
\* get_telemetry_data(asset_id, hours=168): the 7-day window
BASELINE_HOURS == 168
\* get_telemetry_data(asset_id, hours=24): the recent window
RECENT_HOURS == 24
\* DiskSpacePredictor.prepare_data: len(telemetry_data) < 3
DISK_MIN_POINTS == 3
\* PerformanceAnalyzer.analyze_performance_trends: len(telemetry_data) < 5
PERF_MIN_POINTS == 5
\* PerformanceAnomalyDetector.prepare_features: len(telemetry_data) < 10
FEATURE_MIN_POINTS == 10
\* PerformanceAnomalyDetector.detect_anomalies: len(baseline_data) >= 10
BASELINE_MIN_POINTS == 10

\* None, as a record so that it compares with every payload
Null == [none |-> TRUE]

\* The sample holds None for the metric.  Such a sample has no number in
\* the metric's field: it lacks the field and names the metric in nulls.
IsNull(x, metric) == "nulls" \in DOMAIN x /\ metric \in x.nulls

\* the metric is a key of the sample
HasKey(x, metric) == metric \in DOMAIN x \/ IsNull(x, metric)

\* df[metric] of pd.DataFrame(telemetry_data) raises KeyError: the metric is
\* a key of no sample
NoColumn(telemetry_data, metric) ==
    \A i \in 1..Len(telemetry_data) : ~HasKey(telemetry_data[i], metric)

\* the column has a cell without a number (NaN or None)
HasGap(telemetry_data, metric) ==
    \E i \in 1..Len(telemetry_data) : metric \notin DOMAIN telemetry_data[i]

----------------------------------------------------------------------------
(* Arithmetic helpers.                                                     *)

RECURSIVE SumRange(_, _, _)
\* f[lo] + ... + f[hi], by halves
SumRange(f, lo, hi) ==
    IF lo > hi THEN 0
    ELSE IF lo = hi THEN f[lo]
    ELSE LET mid == (lo + hi) \div 2
         IN  SumRange(f, lo, mid) + SumRange(f, mid + 1, hi)

\* f[1] + ... + f[n]
SumTo(f, n) == SumRange(f, 1, n)

SumSeq(s) == SumTo(s, Len(s))

Max(a, b) == IF a >= b THEN a ELSE b

Min(a, b) == IF a <= b THEN a ELSE b

\* floor(a / b) for b > 0 and any integer a
FloorDiv(a, b) == IF a >= 0 THEN a \div b ELSE -((-a + b - 1) \div b)

\* round(a / b) to the nearest integer, ties to the even one (Python round), b > 0
RoundDiv(a, b) ==
    LET q == FloorDiv(a, b)
        r == a - q * b
    IN  IF 2 * r < b THEN q
        ELSE IF 2 * r > b THEN q + 1
        ELSE IF q % 2 = 0 THEN q ELSE q + 1

\* an optional number: None is the empty tuple, a value v is <<v>>
None == <<>>

Some(v) == <<v>>

----------------------------------------------------------------------------
(* Telemetry samples.  A sample is a record                                *)
(*   [timestamp, cpu_usage_percent, ram_usage_percent, disk_usage_percent] *)
(* with the timestamp in hours.                                            *)

IsSorted(s) == \A i \in 1..(Len(s) - 1) : s[i].timestamp <= s[i + 1].timestamp

RECURSIVE InsertByTimestamp(_, _)
\* x put into the sorted sequence s after the elements that are not later
InsertByTimestamp(s, x) ==
    IF s = <<>> THEN <<x>>
    ELSE IF s[Len(s)].timestamp <= x.timestamp THEN Append(s, x)
    ELSE Append(InsertByTimestamp(SubSeq(s, 1, Len(s) - 1), x), s[Len(s)])

RECURSIVE SortPrefix(_, _)
SortPrefix(s, n) ==
    IF n = 0 THEN <<>> ELSE InsertByTimestamp(SortPrefix(s, n - 1), s[n])

\* df.sort_values('timestamp')
sort_values(s) == IF IsSorted(s) THEN s ELSE SortPrefix(s, Len(s))

\* timestamp.dt.hour
HourOfDay(ts) == ts % 24

\* timestamp.dt.dayofweek, Monday = 0; hour 0 is a Monday 00:00
DayOfWeek(ts) == (ts \div 24) % 7

----------------------------------------------------------------------------
(* DiskSpacePredictor (ml-service/models/disk_predictor.py).               *)

\* prepare_data: None below 3 samples and when its KeyError is caught, else
\* the samples sorted by time, from which X = hours since the first sample
\* and y = disk_usage_percent
prepare_data(telemetry_data) ==
    IF Len(telemetry_data) < DISK_MIN_POINTS THEN None
    ELSE IF NoColumn(telemetry_data, "disk_usage_percent") THEN None
    ELSE sort_values(telemetry_data)

RECURSIVE GCD(_, _)
GCD(a, b) == IF b = 0 THEN a ELSE GCD(b, a % b)

Abs(a) == IF a < 0 THEN -a ELSE a

\* a / b in lowest terms, for b > 0
Ratio(a, b) ==
    LET g == GCD(Abs(a), b)
    IN  [num |-> a \div g, den |-> b \div g]

\* The (samples, tenths of a percent) for which the binary64 mean of that
\* many copies of the value, summed in order and divided by the count as
\* np.average does below 8 elements, is not the value itself: among up to 7
\* samples at 0.1, 45.2, 60.0, 85.7, 99.9 and 100.0 percent.
InexactMeans ==
    {<<3, 1>>, <<3, 452>>, <<3, 999>>,
     <<6, 1>>, <<6, 452>>, <<6, 999>>,
     <<7, 1>>, <<7, 452>>, <<7, 857>>, <<7, 999>>}

\* np.average(y) == c for the series y of n copies of c.  Whole percents and
\* their sums are binary64 numbers, so their mean is exact.
MeanIsExact(n, c, unit) == unit = 1 \/ <<n, c>> \notin InexactMeans

\* The least-squares fit of y on X, with y in units of 1/unit percent and
\* counted from the first sample's value, as the integers
\*   sxx = n*Sum(x^2) - Sum(x)^2, sxy = n*Sum(x*y) - Sum(x)*Sum(y),
\*   syy = n*Sum(y^2) - Sum(y)^2
\* so that slope = sxy / sxx and R^2 = sxy^2 / (sxx * syy) = slope * sxy / syy,
\* both kept in lowest terms.
LinearRegression_fit(df, unit) ==
    LET n  == Len(df)
        t0 == df[1].timestamp
        y0 == df[1].disk_usage_percent
        X  == [i \in 1..n |-> df[i].timestamp - t0]
        y  == [i \in 1..n |-> df[i].disk_usage_percent - y0]
        sx == SumTo(X, n)
        sy == SumTo(y, n)
        sxx == n * SumTo([i \in 1..n |-> X[i] * X[i]], n) - sx * sx
        sxy == n * SumTo([i \in 1..n |-> X[i] * y[i]], n) - sx * sy
        syy == n * SumTo([i \in 1..n |-> y[i] * y[i]], n) - sy * sy
        slope == IF sxx = 0 THEN Ratio(0, 1) ELSE Ratio(sxy, sxx)
        fit   == IF syy = 0 THEN Ratio(0, 1) ELSE Ratio(Abs(sxy), syy)
    IN  [n      |-> n,
         unit   |-> unit,
         sx     |-> sx,
         sy     |-> sy,
         sxx    |-> sxx,
         sxy    |-> sxy,
         syy    |-> syy,
         slope  |-> slope,
         r2     |-> Ratio(Abs(slope.num) * fit.num, slope.den * fit.den),
         x_last |-> X[n],
         y_first |-> y0,
         y_last |-> df[n].disk_usage_percent]

\* model.coef_[0] > 0 (with all times equal the fit has slope 0)
SlopePositive(m) == m.sxx > 0 /\ m.sxy > 0

RECURSIVE TimesOver(_, _, _, _)
\* [q, r] with k * a = q * b + r and 0 <= r < b, for 0 <= a < b and k the
\* number whose binary digits (most significant first) are the first i of
\* bits; by doubling, so that no intermediate exceeds 3 * b
TimesOver(a, b, bits, i) ==
    IF i = 0 THEN [q |-> 0, r |-> 0]
    ELSE LET prev == TimesOver(a, b, bits, i - 1)
             t    == 2 * prev.r + bits[i] * a
         IN  [q |-> 2 * prev.q + t \div b, r |-> t % b]

\* round(100 * a / b), ties to even, for 0 <= a <= b, 0 < b
Hundredths(a, b) ==
    IF a = b THEN 100
    ELSE LET d == TimesOver(a, b, <<1, 1, 0, 0, 1, 0, 0>>, 7)
         IN  IF 2 * d.r < b THEN d.q
             ELSE IF 2 * d.r > b THEN d.q + 1
             ELSE IF d.q % 2 = 0 THEN d.q ELSE d.q + 1

\* model.score(X, y) of a constant y is 1.0 when every residual y - mean is
\* 0.0 (r2_score gives 1.0 to a perfect fit of a constant); when the mean
\* is off by a rounding, the residuals y - prediction and the deviations
\* y - mean are the same nonzero numbers and the score is 1 - 1 = 0.0.
FlatSeriesScoresOne(m) == MeanIsExact(m.n, m.y_first, m.unit)

\* confidence = max(0.0, min(1.0, model.score(X, y))) in hundredths.
\* Constant X with varying y scores 0.0.
Confidence100(m) ==
    IF m.syy = 0 THEN (IF FlatSeriesScoresOne(m) THEN 100 ELSE 0)
    ELSE IF m.sxx = 0 THEN 0
    ELSE Hundredths(m.r2.num, m.r2.den)

\* confidence < 0.3, on the unrounded R^2: 10 * sxy^2 < 3 * sxx * syy
ConfidenceBelowFloor(m) ==
    IF m.syy = 0 THEN ~FlatSeriesScoresOne(m)
    ELSE IF m.sxx = 0 THEN TRUE
    ELSE /\ m.r2.num < m.r2.den
         /\ TimesOver(m.r2.num, m.r2.den, <<1, 0, 1, 0>>, 4).q < 3

\* the days counted from the first sample of the window instead of the last
DaysToFull10_from_first(m) ==
    LET p   == m.slope.num
        q   == m.slope.den
        num == ((100 * m.unit - m.y_first) * m.n - m.sy) * q + m.sx * p
        den == m.n * p
    IN  IF num <= 0 THEN 0 ELSE RoundDiv(10 * num, 24 * den)

\* round(max(0, ((100 - intercept) / slope - current_time_hours) / 24), 1) in
\* tenths of a day, for a positive slope p / q.  With
\* intercept = y_first + (sy - slope * sx) / n:
\*   hours_to_full = (((100*unit - y_first)*n - sy)*q + (sx - n*x_last)*p) / (n*p)
DaysToFull10(m) ==
    LET p   == m.slope.num
        q   == m.slope.den
        num == ((100 * m.unit - m.y_first) * m.n - m.sy) * q + (m.sx - m.n * m.x_last) * p
        den == m.n * p
    IN  IF num <= 0 THEN 0 ELSE RoundDiv(10 * num, 24 * den)

\* slope > 0.5 rapidly_increasing, > 0.1 increasing, else slowly_increasing
\* (percent per hour, compared exactly)
Trend(m) ==
    IF 2 * m.slope.num > m.unit * m.slope.den THEN "rapidly_increasing"
    ELSE IF 10 * m.slope.num > m.unit * m.slope.den THEN "increasing"
    ELSE "slowly_increasing"

\* the predictor with the slope looked at before the confidence
predict_disk_full_date_slope_first(telemetry_data, unit) ==
    LET df == prepare_data(telemetry_data)
    IN  IF df = None
        THEN [success |-> FALSE, message |-> "Insufficient data for prediction",
              days_remaining |-> None, confidence |-> 0]
        ELSE LET m == LinearRegression_fit(df, unit)
             IN  IF ~SlopePositive(m)
                 THEN [success |-> TRUE, message |-> "Disk usage stable or decreasing",
                       days_remaining |-> Some(9990),
                       confidence |-> Confidence100(m), trend |-> "stable"]
                 ELSE IF ConfidenceBelowFloor(m)
                 THEN [success |-> FALSE,
                       message |-> "Data too inconsistent for reliable prediction",
                       days_remaining |-> None, confidence |-> Confidence100(m)]
                 ELSE [success |-> TRUE, message |-> "Disk predicted to be full",
                       days_remaining |-> Some(DaysToFull10(m)),
                       confidence |-> Confidence100(m), trend |-> Trend(m),
                       daily_increase_rate |->
                           RoundDiv(2400 * m.slope.num, m.unit * m.slope.den),
                       current_usage |-> RoundDiv(10 * m.y_last, m.unit)]

\* predict_disk_full_date for a window whose disk_usage_percent is held in
\* units of 1/unit percent.  days_remaining is in tenths of a day,
\* confidence and daily_increase_rate in hundredths, current_usage in tenths.
predict_disk_full_date_in(telemetry_data, unit) ==
    LET df == prepare_data(telemetry_data)
    IN  IF df = None
        THEN [success |-> FALSE, message |-> "Insufficient data for prediction",
              days_remaining |-> None, confidence |-> 0]
        ELSE IF HasGap(df, "disk_usage_percent")
        THEN \* model.fit(X, y) raises ValueError on a y without a number
             [success |-> FALSE, message |-> "Prediction error",
              days_remaining |-> None, confidence |-> 0]
        ELSE LET m == LinearRegression_fit(df, unit)
             IN  IF ConfidenceBelowFloor(m)
                 THEN [success |-> FALSE,
                       message |-> "Data too inconsistent for reliable prediction",
                       days_remaining |-> None, confidence |-> Confidence100(m)]
                 ELSE IF ~SlopePositive(m)
                 THEN [success |-> TRUE, message |-> "Disk usage stable or decreasing",
                       days_remaining |-> Some(9990),
                       confidence |-> Confidence100(m), trend |-> "stable"]
                 ELSE [success |-> TRUE, message |-> "Disk predicted to be full",
                       days_remaining |-> Some(DaysToFull10(m)),
                       confidence |-> Confidence100(m), trend |-> Trend(m),
                       daily_increase_rate |->
                           RoundDiv(2400 * m.slope.num, m.unit * m.slope.den),
                       current_usage |-> RoundDiv(10 * m.y_last, m.unit)]

\* predict_disk_full_date on a window of the store, which holds whole percents
predict_disk_full_date(telemetry_data) == predict_disk_full_date_in(telemetry_data, 1)

----------------------------------------------------------------------------
(* PerformanceAnalyzer (ml-service/models/performance_analyzer.py).        *)

RECURSIVE MaxTo(_, _)
MaxTo(f, n) ==
    IF n = 1 THEN f[1]
    ELSE LET mid == n \div 2
         IN  Max(MaxTo(f, mid), MaxTo([i \in 1..(n - mid) |-> f[mid + i]], n - mid))

RECURSIVE MinTo(_, _)
MinTo(f, n) ==
    IF n = 1 THEN f[1]
    ELSE LET mid == n \div 2
         IN  Min(MinTo(f, mid), MinTo([i \in 1..(n - mid) |-> f[mid + i]], n - mid))

\* floor(sqrt(v)) for 0 <= v
ISqrt(v) == CHOOSE k \in 0..200 : k * k <= v /\ v < (k + 1) * (k + 1)

\* One metric's column as [n, sum, sumsq, max, min]: avg = sum / n and the
\* sample variance (pandas std, ddof = 1) is (n*sumsq - sum^2) / (n*(n-1)).
Column(df, metric) ==
    LET n == Len(df)
        v == [i \in 1..n |-> df[i][metric]]
    IN  [n |-> n, sum |-> SumTo(v, n),
         sumsq |-> SumTo([i \in 1..n |-> v[i] * v[i]], n),
         max |-> MaxTo(v, n), min |-> MinTo(v, n)]

\* avg > t
AvgAbove(c, t) == c.sum > t * c.n

\* std > t (sample standard deviation)
StdAbove(c, t) == c.n * c.sumsq - c.sum * c.sum > t * t * c.n * (c.n - 1)

\* the statistics entry of one metric: avg in tenths, max, min, std floored
Statistics(c) ==
    [avg |-> RoundDiv(10 * c.sum, c.n), max |-> c.max, min |-> c.min,
     std |-> ISqrt((c.n * c.sumsq - c.sum * c.sum) \div (c.n * (c.n - 1)))]

\* a recommendation; value is the number its message quotes (avg in tenths,
\* max, or std)
Rec(type, priority, value) == [type |-> type, priority |-> priority, value |-> value]

\* _analyze_time_patterns: peak hours (mean cpu of an hour of day > 80) and
\* weekend mean cpu more than 20 above the weekday mean
analyze_time_patterns(df) ==
    LET n       == Len(df)
        idx     == 1..n
        AtHour(h) == {i \in idx : HourOfDay(df[i].timestamp) = h}
        CpuSum(S) == SumTo([k \in 1..n |-> IF k \in S THEN df[k].cpu_usage_percent ELSE 0], n)
        peak    == {h \in 0..23 : AtHour(h) # {} /\
                      CpuSum(AtHour(h)) > 80 * Cardinality(AtHour(h))}
        weekend == {i \in idx : DayOfWeek(df[i].timestamp) >= 5}
        weekday == idx \ weekend
        nw      == Cardinality(weekend)
        nd      == Cardinality(weekday)
    IN  (IF peak # {} THEN <<Rec("peak_hours_detected", "Low", Cardinality(peak))>>
         ELSE <<>>)
        \o
        (IF nw > 0 /\ nd > 0 /\
            CpuSum(weekend) * nd > CpuSum(weekday) * nw + 20 * nw * nd
         THEN <<Rec("weekend_high_usage", "Low", RoundDiv(10 * CpuSum(weekend), nw))>>
         ELSE <<>>)

\* _generate_recommendations with the spike rule as one more branch of the
\* cpu average rules
generate_recommendations_spike_chained(cpu, ram, disk, df) ==
    (IF AvgAbove(cpu, 85)
     THEN <<Rec("cpu_high_average", "High", RoundDiv(10 * cpu.sum, cpu.n))>>
     ELSE IF AvgAbove(cpu, 70)
     THEN <<Rec("cpu_moderate", "Medium", RoundDiv(10 * cpu.sum, cpu.n))>>
     ELSE IF cpu.max > 98 THEN <<Rec("cpu_spikes", "Medium", cpu.max)>>
     ELSE <<>>)
    \o
    (IF AvgAbove(ram, 90)
     THEN <<Rec("ram_upgrade_needed", "High", RoundDiv(10 * ram.sum, ram.n))>>
     ELSE IF AvgAbove(ram, 80)
     THEN <<Rec("ram_monitor", "Medium", RoundDiv(10 * ram.sum, ram.n))>>
     ELSE <<>>)
    \o
    (IF AvgAbove(disk, 90)
     THEN <<Rec("disk_cleanup_urgent", "High", RoundDiv(10 * disk.sum, disk.n))>>
     ELSE IF AvgAbove(disk, 80)
     THEN <<Rec("disk_cleanup_planned", "Medium", RoundDiv(10 * disk.sum, disk.n))>>
     ELSE <<>>)
    \o
    (IF StdAbove(cpu, 25) THEN <<Rec("cpu_variability", "Low", 0)>> ELSE <<>>)
    \o
    analyze_time_patterns(df)

\* _generate_recommendations
generate_recommendations(cpu, ram, disk, df) ==
    (IF AvgAbove(cpu, 85)
     THEN <<Rec("cpu_high_average", "High", RoundDiv(10 * cpu.sum, cpu.n))>>
     ELSE IF AvgAbove(cpu, 70)
     THEN <<Rec("cpu_moderate", "Medium", RoundDiv(10 * cpu.sum, cpu.n))>>
     ELSE <<>>)
    \o
    (IF cpu.max > 98 THEN <<Rec("cpu_spikes", "Medium", cpu.max)>> ELSE <<>>)
    \o
    (IF AvgAbove(ram, 90)
     THEN <<Rec("ram_upgrade_needed", "High", RoundDiv(10 * ram.sum, ram.n))>>
     ELSE IF AvgAbove(ram, 80)
     THEN <<Rec("ram_monitor", "Medium", RoundDiv(10 * ram.sum, ram.n))>>
     ELSE <<>>)
    \o
    (IF AvgAbove(disk, 90)
     THEN <<Rec("disk_cleanup_urgent", "High", RoundDiv(10 * disk.sum, disk.n))>>
     ELSE IF AvgAbove(disk, 80)
     THEN <<Rec("disk_cleanup_planned", "Medium", RoundDiv(10 * disk.sum, disk.n))>>
     ELSE <<>>)
    \o
    (IF StdAbove(cpu, 25) THEN <<Rec("cpu_variability", "Low", 0)>> ELSE <<>>)
    \o
    analyze_time_patterns(df)

\* a health score that clamps the weighted sum instead of each of its terms
calculate_health_score_clamped_sum(cpu, ram, disk) ==
    Min(1000,
        RoundDiv(Max(0, 4 * (100 * cpu.n - cpu.sum) + 4 * (100 * ram.n - ram.sum)
                          + 2 * (100 * disk.n - disk.sum)),
                 cpu.n))

\* _calculate_health_score, in tenths:
\*   round(0.4*max(0,100-cpu) + 0.4*max(0,100-ram) + 0.2*max(0,100-disk), 1)
calculate_health_score(cpu, ram, disk) ==
    RoundDiv(4 * Max(0, 100 * cpu.n - cpu.sum) + 4 * Max(0, 100 * ram.n - ram.sum)
               + 2 * Max(0, 100 * disk.n - disk.sum),
             cpu.n)

\* analyze_performance_trends past its length check: the statistics, the
\* recommendations and the health score of the sorted window
PerformanceReport(telemetry_data) ==
    LET df   == sort_values(telemetry_data)
        cpu  == Column(df, "cpu_usage_percent")
        ram  == Column(df, "ram_usage_percent")
        disk == Column(df, "disk_usage_percent")
    IN  [success |-> TRUE, message |-> "Analyzed data points",
         statistics |-> [cpu |-> Statistics(cpu), ram |-> Statistics(ram),
                         disk |-> Statistics(disk)],
         recommendations |-> generate_recommendations(cpu, ram, disk, df),
         health_score |-> calculate_health_score(cpu, ram, disk),
         analysis_period |-> [start |-> df[1].timestamp,
                              end |-> df[Len(df)].timestamp]]

\* analyze_performance_trends without its length check
analyze_performance_trends_unchecked(telemetry_data) == PerformanceReport(telemetry_data)

\* analyze_performance_trends without its except clause
analyze_performance_trends_uncaught(telemetry_data) ==
    IF Len(telemetry_data) < PERF_MIN_POINTS
    THEN [success |-> FALSE, message |-> "Insufficient data for analysis",
          recommendations |-> <<>>]
    ELSE IF \E k \in 1..3 :
              NoColumn(telemetry_data,
                       <<"cpu_usage_percent", "ram_usage_percent", "disk_usage_percent">>[k])
    THEN [raised |-> "KeyError"]
    ELSE PerformanceReport(telemetry_data)

\* analyze_performance_trends: the KeyError of a metric that no sample has is
\* caught and returned as a failure
analyze_performance_trends(telemetry_data) ==
    IF Len(telemetry_data) < PERF_MIN_POINTS
    THEN [success |-> FALSE, message |-> "Insufficient data for analysis",
          recommendations |-> <<>>]
    ELSE IF \E k \in 1..3 :
              NoColumn(telemetry_data,
                       <<"cpu_usage_percent", "ram_usage_percent", "disk_usage_percent">>[k])
    THEN [success |-> FALSE, message |-> "Analysis error", recommendations |-> <<>>]
    ELSE PerformanceReport(telemetry_data)

----------------------------------------------------------------------------
(* PerformanceAnomalyDetector (ml-service/models/anomaly_detector.py).     *)
(* The detector object keeps is_trained and the fitted scaler and model    *)
(* between calls.  The fitted state is the scaler's statistics of the six  *)
(* features of the window it was fitted on; the forest is a deterministic  *)
(* function (random_state = 42) of the standardized window.                *)

\* dict.get(key, default)
get(d, key, default) == IF key \in DOMAIN d THEN d[key] ELSE default

\* the three usage metrics, in the order the code reads them
Metrics == <<"cpu_usage_percent", "ram_usage_percent", "disk_usage_percent">>

\* the cell of pd.DataFrame(telemetry_data)[metric].fillna(0): a sample
\* without the key and a sample with None both give NaN, filled with 0
fillna(x, metric) == get(x, metric, 0)

\* telemetry_point.get(metric, 0): None when the sample holds None
point_get(x, metric) == IF IsNull(x, metric) THEN Null ELSE get(x, metric, 0)

\* the feature vector of a sample: cpu, ram, disk, hour, day_of_week and
\* total_usage (kept as the sum of the three, three times the mean)
FeatureVector(x) ==
    <<fillna(x, Metrics[1]), fillna(x, Metrics[2]), fillna(x, Metrics[3]),
      HourOfDay(x.timestamp), DayOfWeek(x.timestamp),
      fillna(x, Metrics[1]) + fillna(x, Metrics[2]) + fillna(x, Metrics[3])>>

\* prepare_features: None below 10 samples, else the feature rows of the
\* samples sorted by timestamp.  Selecting a column that no sample has a key
\* for raises KeyError, which the method catches to return None.
prepare_features(telemetry_data) ==
    IF Len(telemetry_data) < FEATURE_MIN_POINTS THEN None
    ELSE IF \E k \in 1..3 :
               \A i \in 1..Len(telemetry_data) : ~HasKey(telemetry_data[i], Metrics[k])
    THEN None
    ELSE LET df == sort_values(telemetry_data)
         IN  [i \in 1..Len(df) |-> FeatureVector(df[i])]

\* StandardScaler.fit: per feature the count, sum and sum of squares, which
\* give mean_ and scale_ (population standard deviation, 1 when it is 0)
StandardScaler_fit(features) ==
    LET n == Len(features)
    IN  [f \in 1..6 |->
            [n |-> n,
             sum |-> SumTo([i \in 1..n |-> features[i][f]], n),
             sumsq |-> SumTo([i \in 1..n |-> features[i][f] * features[i][f]], n)]]

\* scaler.transform(row)[f] ^ 2 > ksq
ScaledSqAbove(scaler, row, f, ksq) ==
    LET c   == scaler[f]
        dev == c.n * row[f] - c.sum
        v   == c.n * c.sumsq - c.sum * c.sum
    IN  dev * dev > ksq * (IF v = 0 THEN c.n * c.n ELSE v)

\* model.decision_function on one standardized row, in thousandths.  The
\* isolation forest of the library is represented by a fixed function of the
\* standardized row: the further the row lies from the fitted window in some
\* feature, the lower the score; negative scores are outliers.
decision_function(scaler, row) ==
    IF \E f \in 1..6 : ScaledSqAbove(scaler, row, f, 10) THEN -600
    ELSE IF \E f \in 1..6 : ScaledSqAbove(scaler, row, f, 9) THEN -400
    ELSE IF \E f \in 1..6 : ScaledSqAbove(scaler, row, f, 3) THEN -100
    ELSE 100

\* model.predict: -1 (outlier) exactly when the decision function is negative
predict(scaler, row) == IF decision_function(scaler, row) < 0 THEN -1 ELSE 1

\* a usage above 85 makes the severity Medium whatever the score
calculate_severity_usage_decides(anomaly_score, telemetry_point) ==
    LET score_severity == IF anomaly_score < -500 THEN "High"
                          ELSE IF anomaly_score < -300 THEN "Medium"
                          ELSE "Low"
        usages == {telemetry_point[f] : f \in DOMAIN telemetry_point}
    IN  IF \E usage \in usages : usage > 95 THEN "High"
        ELSE IF \E usage \in usages : usage > 85 THEN "Medium"
        ELSE score_severity

\* _calculate_severity.  any(usage > 95 for usage in [cpu, ram, disk])
\* compares the usages in order up to the first above 95; comparing None
\* with a number raises TypeError, which the method does not catch.
calculate_severity(anomaly_score, telemetry_point) ==
    LET score_severity == IF anomaly_score < -500 THEN "High"
                          ELSE IF anomaly_score < -300 THEN "Medium"
                          ELSE "Low"
        usage(k) == get(telemetry_point, Metrics[k], 0)
        null(k)  == IsNull(telemetry_point, Metrics[k])
    IN  IF \E k \in 1..3 : null(k) /\ \A j \in 1..(k - 1) : usage(j) <= 95
        THEN "TypeError"
        ELSE IF \E k \in 1..3 : usage(k) > 95 THEN "High"
        ELSE IF \E k \in 1..3 : usage(k) > 85
        THEN (IF score_severity # "High" THEN "Medium" ELSE "High")
        ELSE score_severity

\* the detector object after __init__
NewDetector == [is_trained |-> FALSE, scaler |-> <<>>]

\* train_baseline: [ok, detector]
train_baseline(detector, telemetry_data) ==
    LET features == prepare_features(telemetry_data)
    IN  IF features = None THEN [ok |-> FALSE, detector |-> detector]
        ELSE [ok |-> TRUE,
              detector |-> [is_trained |-> TRUE,
                            scaler |-> StandardScaler_fit(features)]]

RECURSIVE CollectAnomalies(_, _, _, _)
\* the loop over enumerate(zip(predictions, anomaly_scores)) up to row i: row
\* i of the sorted features is reported with recent_telemetry_data[i]
CollectAnomalies(scaler, features, recent, i) ==
    IF i = 0 THEN <<>>
    ELSE LET before == CollectAnomalies(scaler, features, recent, i - 1)
             score  == decision_function(scaler, features[i])
             point  == recent[i]
         IN  IF predict(scaler, features[i]) = -1
             THEN Append(before,
                         [timestamp |-> point.timestamp,
                          anomaly_score |-> score,
                          cpu_usage |-> point_get(point, Metrics[1]),
                          ram_usage |-> point_get(point, Metrics[2]),
                          disk_usage |-> point_get(point, Metrics[3]),
                          severity |-> calculate_severity(score, point)])
             ELSE before

\* a detector that keeps the model it has once it is trained
detect_anomalies_keeping_model(detector, recent, baseline) ==
    LET det == IF detector.is_trained \/ Len(baseline) < BASELINE_MIN_POINTS
               THEN detector
               ELSE train_baseline(detector, baseline).detector
        Fail(msg) == [success |-> FALSE, message |-> msg, anomalies |-> <<>>]
        recent_features == prepare_features(recent)
    IN  IF ~det.is_trained
        THEN [result |-> Fail("Model not trained - need baseline data"), detector |-> det]
        ELSE IF recent_features = None
        THEN [result |-> Fail("Insufficient recent data"), detector |-> det]
        ELSE LET anomalies == CollectAnomalies(det.scaler, recent_features, recent,
                                               Len(recent))
             IN  [result |->
                      [success |-> TRUE, message |-> "Analyzed data points",
                       anomalies |-> anomalies,
                       anomaly_count |-> Len(anomalies),
                       anomaly_rate |-> RoundDiv(1000 * Len(anomalies), Len(recent))],
                  detector |-> det]

\* detect_anomalies(recent_telemetry_data, baseline_data): the result and the
\* detector object as the call leaves it
detect_anomalies(detector, recent, baseline) ==
    LET retrain == Len(baseline) >= BASELINE_MIN_POINTS
        trained == IF retrain THEN train_baseline(detector, baseline)
                   ELSE [ok |-> TRUE, detector |-> detector]
        det     == trained.detector
        Fail(msg) == [success |-> FALSE, message |-> msg, anomalies |-> <<>>]
    IN  IF ~trained.ok
        THEN [result |-> Fail("Failed to train baseline model"), detector |-> det]
        ELSE IF ~det.is_trained
        THEN [result |-> Fail("Model not trained - need baseline data"), detector |-> det]
        ELSE LET recent_features == prepare_features(recent)
             IN  IF recent_features = None
                 THEN [result |-> Fail("Insufficient recent data"), detector |-> det]
                 ELSE LET anomalies == CollectAnomalies(det.scaler, recent_features,
                                                        recent, Len(recent))
                      IN  IF \E k \in 1..Len(anomalies) : anomalies[k].severity = "TypeError"
                          THEN [result |-> Fail("Anomaly detection error"),
                                detector |-> det]
                          ELSE
                          [result |->
                               [success |-> TRUE, message |-> "Analyzed data points",
                                anomalies |-> anomalies,
                                anomaly_count |-> Len(anomalies),
                                anomaly_rate |-> RoundDiv(1000 * Len(anomalies), Len(recent))],
                           detector |-> det]

----------------------------------------------------------------------------
(* The store and the service.                                              *)

VARIABLES
    telemetries,       \* db.telemetries: asset id -> its samples, ascending by timestamp
    assets,            \* db.assets: the documents an Active/last_seen query returns, in store order
    ml_predictions,    \* db.ml_predictions, in insertion order
    alerts,            \* db.alerts, in insertion order
    anomaly_detector,  \* PredictionService.anomaly_detector: the one detector object
    request,           \* the entry point being served, "idle" when none
    pc,                \* the statement the service is at
    asset_id,          \* the asset being analyzed
    baseline_data,     \* run_anomaly_detection: the baseline window already fetched
    results,           \* run_full_analysis: the bundle being filled
    sweep,             \* run_analysis_for_all_assets: assets, loop index, results list
    returned,          \* what the last finished request returned or raised
    call,              \* the last finished analysis call: what it read, did and returned
    attempts,          \* the analyses started so far by the current run_full_analysis
    workload,          \* the requests the callers have still to make
    n_inserts,         \* telemetry samples recorded by the collector so far
    n_faults,          \* store calls that have raised so far
    marks,             \* per request made: what it was and the sizes of
                       \* ml_predictions and alerts when it was made
    given,             \* the arguments of an analyzer method called on its own
    answer,            \* what the method returned for them
    threads,           \* the requests being served at once, each in its thread:
                       \* entry point, asset, position and local values
    disk_predictor     \* PredictionService.disk_predictor.model: the line last
                       \* fitted.  A call reads only the line it fitted itself
                       \* unless another call overlaps it, so the actions that
                       \* serve one request at a time leave it as it is.

vars == <<telemetries, assets, ml_predictions, alerts, anomaly_detector, request, pc,
          asset_id, baseline_data, results, sweep, returned, call, attempts,
          workload, n_inserts, n_faults, marks, given, answer, threads,
          disk_predictor>>

\* the variables of the service and its stores
service_vars ==
    <<telemetries, assets, ml_predictions, alerts, anomaly_detector, request, pc,
      asset_id, baseline_data, results, sweep, returned, call, attempts,
      workload, n_inserts, n_faults, marks>>

\* telemetry samples the collector records in one behaviour
MaxInserts == 1
\* store calls that raise in one behaviour
MaxFaults == 1

AssetIds == {"a1", "a2"}

\* datetime.now(), in hours: a Monday 18:00 (the service's work takes no time
\* at this resolution)
Now == 14 * 24 + 18

\* The store calls of one analysis call: the find of its fetch, the insert
\* of save_prediction and the inserts of its create_ml_alert calls (at most
\* three: one per High recommendation for cpu, ram and disk).
AlertCall(i) == <<"alert", i>>

StoreCalls == {<<"fetch", 0>>, <<"save", 0>>} \cup {AlertCall(i) : i \in 1..3}

----------------------------------------------------------------------------
(* Telemetry histories the behaviours start from.                          *)

\* A usage profile: base cpu and ram, disk = d0 + (step * i) \div den plus zig
\* on odd samples, and the samples (counted back from the newest) whose cpu
\* or ram departs from the base.
Profiles ==
    [idle   |-> [cpu |-> 30, ram |-> 40, d0 |-> 50, step |-> 0, den |-> 1, zig |-> 0,
                 spikes |-> {}],
     fast   |-> [cpu |-> 90, ram |-> 40, d0 |-> 70, step |-> 2, den |-> 1, zig |-> 0,
                 spikes |-> {[back |-> 1, cpu |-> 99, ram |-> 40]}],
     medium |-> [cpu |-> 90, ram |-> 95, d0 |-> 0, step |-> 1, den |-> 1, zig |-> 0,
                 spikes |-> {[back |-> 1, cpu |-> 86, ram |-> 95],
                             [back |-> 2, cpu |-> 90, ram |-> 91],
                             [back |-> 3, cpu |-> 86, ram |-> 91]}],
     slow   |-> [cpu |-> 75, ram |-> 40, d0 |-> 0, step |-> 1, den |-> 2, zig |-> 0,
                 spikes |-> {[back |-> 1, cpu |-> 80, ram |-> 40],
                             [back |-> 2, cpu |-> 75, ram |-> 45]}],
     noisy  |-> [cpu |-> 90, ram |-> 95, d0 |-> 88, step |-> 0, den |-> 1, zig |-> 8,
                 spikes |-> {}]]

\* the i-th of n samples of profile p, taken at hour ts
SampleOf(p, i, n, ts) ==
    LET hit == {sp \in p.spikes : sp.back = n - i + 1}
        sp  == CHOOSE x \in hit : TRUE
    IN  [timestamp |-> ts,
         cpu_usage_percent  |-> IF hit = {} THEN p.cpu ELSE sp.cpu,
         ram_usage_percent  |-> IF hit = {} THEN p.ram ELSE sp.ram,
         disk_usage_percent |-> p.d0 + (p.step * i) \div p.den
                                     + (IF i % 2 = 1 THEN p.zig ELSE 0)]

\* n_old samples older than the recent window (one an hour, back from
\* Now - 25) followed by n_recent samples of the last hours (one an hour, up
\* to Now)
History(p, n_old, n_recent) ==
    LET n == n_old + n_recent
    IN  [i \in 1..n |->
            SampleOf(p, i, n,
                     IF i <= n_old THEN Now - RECENT_HOURS - (n_old - i + 1)
                     ELSE Now - (n - i))]

\* <<n_old, n_recent>>: the window sizes on both sides of each gate (3, 5, 10)
Shapes == {<<0, 2>>, <<1, 2>>, <<0, 4>>, <<0, 9>>, <<1, 9>>, <<0, 10>>, <<1, 10>>}

Histories(names, shapes) ==
    {History(Profiles[nm], sh[1], sh[2]) : nm \in names, sh \in shapes}

\* an assets document with its asset_id, and one without the field
AssetDoc(a) == [asset_id |-> a, status |-> "Active"]

DocWithoutId == [status |-> "Active"]

----------------------------------------------------------------------------
(* PredictionService (ml-service/services/prediction_service.py).          *)
(* Every store call can raise; failed is the set of store calls of the     *)
(* current analysis call that do.  Each helper catches the store's         *)
(* exception, logs it and returns [] or None.                              *)

\* get_telemetry_data returning the samples read before the query raised
get_telemetry_data_partial(asset, hours, failed) ==
    LET found == SelectSeq(telemetries[asset], LAMBDA x : x.timestamp >= Now - hours)
    IN  IF <<"fetch", 0>> \in failed THEN SubSeq(found, 1, Len(found) - 1)
        ELSE found

\* get_telemetry_data: the asset's samples with timestamp >= now - hours,
\* ascending; [] when the query raises
get_telemetry_data(asset, hours, failed) ==
    IF <<"fetch", 0>> \in failed THEN <<>>
    ELSE SelectSeq(telemetries[asset], LAMBDA x : x.timestamp >= Now - hours)

\* get_all_active_assets: the documents of the query; [] when it raises
get_all_active_assets_newest_first(failed) ==
    IF <<"fetch", 0>> \in failed THEN <<>>
    ELSE [i \in 1..Len(assets) |-> assets[Len(assets) + 1 - i]]

get_all_active_assets(failed) == IF <<"fetch", 0>> \in failed THEN <<>> ELSE assets

\* save_prediction without the model_version tag
save_prediction_untagged(asset, prediction_type, prediction_data, failed) ==
    IF <<"save", 0>> \in failed THEN <<>>
    ELSE <<[asset_id |-> asset, prediction_type |-> prediction_type,
            prediction_data |-> prediction_data]>>

\* save_prediction: the documents it adds to ml_predictions (none when the
\* insert raises)
save_prediction(asset, prediction_type, prediction_data, failed) ==
    IF <<"save", 0>> \in failed THEN <<>>
    ELSE <<[asset_id |-> asset, prediction_type |-> prediction_type,
            prediction_data |-> prediction_data, model_version |-> "1.0.0"]>>

\* an alert is not raised again while one of its asset and type is open
create_ml_alert_once(asset, alert_type, message, severity, prediction_data, i, failed) ==
    IF \/ AlertCall(i) \in failed
       \/ \E k \in 1..Len(alerts) :
             /\ alerts[k].asset_id = asset
             /\ alerts[k].type = alert_type
             /\ alerts[k].status = "Open"
    THEN <<>>
    ELSE <<[asset_id |-> asset, type |-> alert_type, message |-> message,
            severity |-> severity, status |-> "Open", email_sent |-> FALSE,
            ml_generated |-> TRUE, prediction_data |-> prediction_data]>>

\* create_ml_alert, the i-th of a call: the documents it adds to alerts (none
\* when the insert raises)
create_ml_alert(asset, alert_type, message, severity, prediction_data, i, failed) ==
    IF AlertCall(i) \in failed THEN <<>>
    ELSE <<[asset_id |-> asset, type |-> alert_type, message |-> message,
            severity |-> severity, status |-> "Open", email_sent |-> FALSE,
            ml_generated |-> TRUE, prediction_data |-> prediction_data]>>

\* a store that keeps the latest documents only
insert_one_replacing(collection, docs) == IF docs = <<>> THEN collection ELSE docs

\* collection.insert_one for each of the documents: they are appended
insert_one(collection, docs) == collection \o docs

\* What one analysis call did: the value it returned, whether it invoked its
\* analyzer and what the analyzer answered, the documents it inserted, the
\* inserts it tried, and the detector it leaves.
Effect(ret, invoked, result, preds, new_alerts, tried, detector) ==
    [ret |-> ret, invoked |-> invoked, result |-> result, preds |-> preds,
     alerts |-> new_alerts, tried |-> tried, detector |-> detector]

\* High for every alert below the warning threshold
DiskAlertSeverityAtWarning(days) ==
    IF days < 10 * DISK_FULL_WARNING_DAYS THEN "High" ELSE "Medium"

\* a fourth level for a disk about to fill
DiskAlertSeverityCritical(days) ==
    IF days < 10 * DISK_HIGH_SEVERITY_DAYS THEN "Critical" ELSE "Medium"

\* severity = 'High' if days_remaining < 3 else 'Medium' (days in tenths)
DiskAlertSeverity(days) ==
    IF days < 10 * DISK_HIGH_SEVERITY_DAYS THEN "High" ELSE "Medium"

\* run_disk_prediction after its fetch; prediction is what
\* disk_predictor.predict_disk_full_date(telemetry_data) returns, read only
\* where the code makes that call
run_disk_prediction(asset, telemetry_data, prediction, failed) ==
    IF Len(telemetry_data) < MINIMUM_DATA_POINTS
    THEN Effect(Null, FALSE, Null, <<>>, <<>>, {}, anomaly_detector)
    ELSE IF prediction.success
    THEN LET saved == save_prediction(asset, "disk_space_prediction", prediction, failed)
             days  == prediction.days_remaining
             warn  == days # None /\ days[1] < 10 * DISK_FULL_WARNING_DAYS
             alert ==
                 IF warn
                 THEN create_ml_alert(
                          asset, "ml_prediction",
                          [text |-> "Disk will be full in days", value |-> days[1]],
                          DiskAlertSeverity(days[1]), prediction, 1, failed)
                 ELSE <<>>
         IN  Effect(prediction, TRUE, prediction, saved, alert,
                    {<<"save", 0>>} \cup (IF warn THEN {AlertCall(1)} ELSE {}),
                    anomaly_detector)
    ELSE Effect(Null, TRUE, prediction, <<>>, <<>>, {}, anomaly_detector)

\* [a for a in result['anomalies'] if a['severity'] == 'High']
high_severity_anomalies(result) ==
    SelectSeq(result.anomalies, LAMBDA a : a.severity = "High")

\* a Medium alert for any anomaly at all
AnomalyAlertSeverityAnyCount(result) ==
    IF Len(high_severity_anomalies(result)) > 0 THEN "High"
    ELSE IF result.anomaly_count > 0 THEN "Medium"
    ELSE "none"

\* The severity of the alert run_anomaly_detection raises for a saved result,
\* "none" when it raises no alert.
AnomalyAlertSeverity(result) ==
    IF Len(high_severity_anomalies(result)) > 0 THEN "High"
    ELSE IF result.anomaly_count >= MULTIPLE_ANOMALIES THEN "Medium"
    ELSE "none"

\* run_anomaly_detection after its two fetches; d is what
\* anomaly_detector.detect_anomalies(recent_data, baseline_data) returns and
\* does to the detector, read only where the code makes that call
run_anomaly_detection(asset, baseline, recent_data, d, failed) ==
    IF Len(baseline) < MINIMUM_DATA_POINTS \/ Len(recent_data) < MIN_RECENT_POINTS
    THEN Effect(Null, FALSE, Null, <<>>, <<>>, {}, anomaly_detector)
    ELSE LET result == d.result
         IN  IF result.success /\ result.anomaly_count > 0
             THEN LET saved == save_prediction(asset, "anomaly_detection", result, failed)
                      severity == AnomalyAlertSeverity(result)
                      alert ==
                          IF severity = "High"
                          THEN create_ml_alert(
                                   asset, "performance_anomaly",
                                   [text |-> "high-severity anomalies detected",
                                    value |-> Len(high_severity_anomalies(result))],
                                   "High", result, 1, failed)
                          ELSE IF severity = "Medium"
                          THEN create_ml_alert(
                                   asset, "performance_anomaly",
                                   [text |-> "performance anomalies detected",
                                    value |-> result.anomaly_count],
                                   "Medium", result, 1, failed)
                          ELSE <<>>
                  IN  Effect(result, TRUE, result, saved, alert,
                             {<<"save", 0>>} \cup
                                 (IF severity # "none" THEN {AlertCall(1)} ELSE {}),
                             d.detector)
             ELSE Effect(result, TRUE, result, <<>>, <<>>, {}, d.detector)

\* the recommendations of priority High or Medium
high_priority_recs_and_medium(analysis) ==
    SelectSeq(analysis.recommendations, LAMBDA r : r.priority # "Low")

\* [r for r in analysis['recommendations'] if r['priority'] == 'High']
high_priority_recs(analysis) ==
    SelectSeq(analysis.recommendations, LAMBDA r : r.priority = "High")

RECURSIVE AlertEach(_, _, _, _)
\* the loop over high_priority_recs up to the i-th: one create_ml_alert each
AlertEach(asset, recs, failed, i) ==
    IF i = 0 THEN <<>>
    ELSE AlertEach(asset, recs, failed, i - 1) \o
         create_ml_alert(asset, "maintenance_recommendation",
                         [text |-> recs[i].type, value |-> recs[i].value],
                         "Medium", recs[i], i, failed)

\* run_performance_analysis after its fetch; analysis is what
\* performance_analyzer.analyze_performance_trends(telemetry_data) returns,
\* read only where the code makes that call
run_performance_analysis(asset, telemetry_data, analysis, failed) ==
    IF Len(telemetry_data) < MINIMUM_DATA_POINTS
    THEN Effect(Null, FALSE, Null, <<>>, <<>>, {}, anomaly_detector)
    ELSE IF analysis.success
    THEN LET saved == save_prediction(asset, "performance_analysis", analysis, failed)
             n == Len(high_priority_recs(analysis))
         IN  Effect(analysis, TRUE, analysis, saved,
                    AlertEach(asset, high_priority_recs(analysis), failed, n),
                    {<<"save", 0>>} \cup {AlertCall(i) : i \in 1..n},
                    anomaly_detector)
    ELSE Effect(analysis, TRUE, analysis, <<>>, <<>>, {}, anomaly_detector)

----------------------------------------------------------------------------
(* The state machine.  One request is served at a time; each run_* call is *)
(* one step, except run_anomaly_detection, whose two fetches are two store *)
(* round trips between which the collector may record a sample.            *)

NoAsset == "none"

NoFrame == [data |-> <<>>, fetch_ok |-> TRUE, stored |-> 0]

NoSweep == [assets |-> <<>>, i |-> 0, results |-> <<>>]

NoCall ==
    [op |-> "none", asset_id |-> NoAsset, fetch_ok |-> TRUE, stored |-> 0,
     n |-> 0, n_recent |-> 0, window |-> <<>>, recent |-> <<>>,
     detector |-> NewDetector, ret |-> Null, invoked |-> FALSE, result |-> Null,
     preds |-> <<>>, alerts |-> <<>>, tried |-> {}, failed |-> {}]

\* no request has returned since the last one was made
NotReturned == [request |-> "none", raised |-> FALSE, value |-> Null]

\* run_full_analysis giving up at the first analysis that returns None
NextStatementUnlessNone(op, ret) ==
    IF ret = Null THEN "return"
    ELSE CASE op = "run_disk_prediction" -> "anomaly"
           [] op = "run_anomaly_detection" -> "perf"
           [] op = "run_performance_analysis" -> "return"

\* The statement of run_full_analysis that follows the call of op, whatever
\* the call returned.
NextStatement(op, ret) ==
    CASE op = "run_disk_prediction" -> "anomaly"
      [] op = "run_anomaly_detection" -> "perf"
      [] op = "run_performance_analysis" -> "return"

\* the number of the asset's stored samples a window of that many hours holds
Stored(asset, hours) == Len(get_telemetry_data(asset, hours, {}))

\* the results dict run_full_analysis starts from
NewBundle(asset) ==
    [asset_id |-> asset, disk_prediction |-> Null, anomaly_detection |-> Null,
     performance_analysis |-> Null]

Analyses == {"run_disk_prediction", "run_anomaly_detection",
             "run_performance_analysis"}

FirstStatement(op) ==
    CASE op = "run_disk_prediction" -> "disk"
      [] op = "run_anomaly_detection" -> "anomaly"
      [] op = "run_performance_analysis" -> "perf"
      [] op = "run_full_analysis" -> "disk"

\* A request of the API layer (app.py) or of the hourly job
\* (jobs/hourly_analysis.py).
Request(op, asset) == [op |-> op, asset_id |-> asset]

\* What the callers ask in one behaviour: any one request, one analysis of a1
\* twice, or the anomaly detection of a1 and then of a2.
Workloads ==
    {<<Request(op, a)>> : op \in Analyses \cup {"run_full_analysis"}, a \in AssetIds}
    \cup {<<Request("run_analysis_for_all_assets", NoAsset)>>}
    \cup {<<Request(op, "a1"), Request(op, "a1")>> : op \in Analyses}
    \cup {<<Request("run_anomaly_detection", "a1"),
            Request("run_anomaly_detection", "a2")>>}

\* The stores the behaviours start from.  With a2 lacking telemetry, a1 has
\* each kind of history at ten recent samples and a rising one at each side
\* of the gates; with both assets monitored, the asset list may also hold a
\* document that lacks the asset_id field.
InitialTelemetries ==
    {[a \in AssetIds |-> IF a = "a1" THEN h1 ELSE <<>>] :
        h1 \in Histories({"idle", "fast", "medium", "slow", "noisy"}, {<<0, 10>>})
               \cup Histories({"fast"}, Shapes)
               \cup Histories({"slow"}, {<<1, 10>>})}

InitialPairs ==
    {[a \in AssetIds |-> IF a = "a1" THEN h1 ELSE h2] :
        h1 \in Histories({"fast"}, {<<0, 2>>, <<0, 10>>}),
        h2 \in Histories({"idle"}, {<<0, 9>>}) \cup Histories({"medium"}, {<<0, 10>>})}

\* The full analysis of a1 twice, asked where a1 alone is monitored and its
\* ten recent samples make each of the three analyses save a record.
RepeatedFullAnalysis ==
    IF /\ telemetries["a2"] = <<>>
       /\ telemetries["a1"] \in Histories({"fast", "medium"}, {<<0, 10>>})
    THEN {<<Request("run_full_analysis", "a1"), Request("run_full_analysis", "a1")>>}
    ELSE {}

Init ==
    /\ \/ /\ telemetries \in InitialTelemetries
          /\ assets = <<AssetDoc("a1"), AssetDoc("a2")>>
       \/ /\ telemetries \in InitialPairs
          /\ assets \in {<<AssetDoc("a1"), AssetDoc("a2")>>,
                         <<AssetDoc("a1"), DocWithoutId, AssetDoc("a2")>>}
    /\ ml_predictions = <<>>
    /\ alerts = <<>>
    /\ anomaly_detector = NewDetector
    /\ request = "idle"
    /\ pc = "idle"
    /\ asset_id = NoAsset
    /\ baseline_data = NoFrame
    /\ results = Null
    /\ sweep = NoSweep
    /\ returned = NotReturned
    /\ call = NoCall
    /\ attempts = <<>>
    /\ workload \in Workloads \cup RepeatedFullAnalysis
    /\ n_inserts = 0
    /\ n_faults = 0
    /\ marks = <<>>
    /\ given = Null
    /\ answer = Null
    /\ threads = <<>>
    /\ disk_predictor = Null

\* the mark of a request as it is made
Mark(op, asset) ==
    [op |-> op, asset_id |-> asset, preds |-> Len(ml_predictions),
     alerts |-> Len(alerts)]

\* The sets of store calls that may raise in the next analysis call.
Failures == {failed \in SUBSET StoreCalls : Cardinality(failed) <= MaxFaults - n_faults}

\* The API layer (app.py) calls one entry point for one asset.
Call(op, asset) ==
    /\ pc = "idle"
    /\ workload # <<>>
    /\ Head(workload) = Request(op, asset)
    /\ request' = op
    /\ asset_id' = asset
    /\ pc' = FirstStatement(op)
    /\ results' = IF op = "run_full_analysis" THEN NewBundle(asset) ELSE Null
    /\ attempts' = <<>>
    /\ workload' = Tail(workload)
    /\ returned' = NotReturned
    /\ call' = NoCall
    /\ marks' = Append(marks, Mark(op, asset))
    /\ UNCHANGED <<telemetries, assets, ml_predictions, alerts, anomaly_detector,
                   baseline_data, sweep, n_inserts, n_faults>>
    /\ UNCHANGED <<given, answer, threads, disk_predictor>>

\* What follows a finished analysis call that returned ret: the return of
\* the request when the call was the request, else the next statement of
\* run_full_analysis (and of the sweep's loop body after the third call).
Continue(op, ret) ==
    IF request = op
    THEN /\ returned' = [request |-> op, raised |-> FALSE, value |-> ret]
         /\ pc' = "idle"
         /\ request' = "idle"
         /\ UNCHANGED <<results, sweep>>
    ELSE LET bundle ==
                 CASE op = "run_disk_prediction" ->
                          [results EXCEPT !.disk_prediction = ret]
                   [] op = "run_anomaly_detection" ->
                          [results EXCEPT !.anomaly_detection = ret]
                   [] op = "run_performance_analysis" ->
                          [results EXCEPT !.performance_analysis = ret]
         IN  /\ results' = bundle
             /\ IF NextStatement(op, ret) # "return"
                THEN pc' = NextStatement(op, ret) /\ UNCHANGED <<returned, request, sweep>>
                ELSE IF request = "run_full_analysis"
                THEN /\ returned' = [request |-> request, raised |-> FALSE,
                                     value |-> bundle]
                     /\ pc' = "idle"
                     /\ request' = "idle"
                     /\ UNCHANGED sweep
                ELSE /\ sweep' = [sweep EXCEPT !.results = Append(@, bundle),
                                               !.i = @ + 1]
                     /\ pc' = "next_asset"
                     /\ UNCHANGED <<returned, request>>

\* The bookkeeping of a finished analysis call with effect e on the window
\* (and, for the anomaly detection, the recent window) it fetched, of whose
\* store calls those in failed raised.
Finish(op, fetch_ok, stored, window, recent, e, failed) ==
    /\ ml_predictions' = insert_one(ml_predictions, e.preds)
    /\ alerts' = insert_one(alerts, e.alerts)
    /\ anomaly_detector' = e.detector
    /\ call' = [op |-> op, asset_id |-> asset_id, fetch_ok |-> fetch_ok,
                stored |-> stored, n |-> Len(window), n_recent |-> Len(recent),
                window |-> window, recent |-> recent, detector |-> anomaly_detector,
                ret |-> e.ret, invoked |-> e.invoked, result |-> e.result,
                preds |-> e.preds, alerts |-> e.alerts, tried |-> e.tried,
                failed |-> e.tried \cap failed]
    /\ attempts' = Append(attempts, op)
    /\ n_faults' = n_faults + Cardinality((e.tried \cup {<<"fetch", 0>>}) \cap failed)
    /\ Continue(op, e.ret)

\* run_disk_prediction(asset_id)
DiskPrediction ==
    /\ pc = "disk"
    /\ \E fetch \in {f \in Failures : f \subseteq {<<"fetch", 0>>}} :
          LET telemetry_data == get_telemetry_data(asset_id, BASELINE_HOURS, fetch)
              prediction     == predict_disk_full_date(telemetry_data)
          IN  \E failed \in {f \in Failures : f \cap {<<"fetch", 0>>} = fetch} :
                 Finish("run_disk_prediction", fetch = {},
                        Stored(asset_id, BASELINE_HOURS), telemetry_data, <<>>,
                        run_disk_prediction(asset_id, telemetry_data, prediction, failed),
                        failed)
    /\ UNCHANGED <<telemetries, assets, asset_id, baseline_data, workload, n_inserts,
                   marks>>
    /\ UNCHANGED <<given, answer, threads, disk_predictor>>

\* run_anomaly_detection(asset_id), first fetch: the 7-day baseline
AnomalyFetchBaseline ==
    /\ pc = "anomaly"
    /\ \E fetch \in {f \in Failures : f \subseteq {<<"fetch", 0>>}} :
          /\ baseline_data' = [data |-> get_telemetry_data(asset_id, BASELINE_HOURS, fetch),
                               fetch_ok |-> fetch = {},
                               stored |-> Stored(asset_id, BASELINE_HOURS)]
          /\ n_faults' = n_faults + Cardinality(fetch)
    /\ pc' = "anomaly_recent"
    /\ UNCHANGED <<telemetries, assets, ml_predictions, alerts, anomaly_detector,
                   request, asset_id, results, sweep, returned, call, attempts,
                   workload, n_inserts, marks>>
    /\ UNCHANGED <<given, answer, threads, disk_predictor>>

\* run_anomaly_detection(asset_id), from the second fetch (24 hours) on
AnomalyDetection ==
    /\ pc = "anomaly_recent"
    /\ \E fetch \in {f \in Failures : f \subseteq {<<"fetch", 0>>}} :
          LET recent_data == get_telemetry_data(asset_id, RECENT_HOURS, fetch)
              d == detect_anomalies(anomaly_detector, recent_data, baseline_data.data)
          IN  \E failed \in {f \in Failures : f \cap {<<"fetch", 0>>} = fetch} :
                 Finish("run_anomaly_detection", fetch = {} /\ baseline_data.fetch_ok,
                        baseline_data.stored, baseline_data.data, recent_data,
                        run_anomaly_detection(asset_id, baseline_data.data, recent_data,
                                              d, failed),
                        failed)
    /\ baseline_data' = NoFrame
    /\ UNCHANGED <<telemetries, assets, asset_id, workload, n_inserts, marks>>
    /\ UNCHANGED <<given, answer, threads, disk_predictor>>

\* run_performance_analysis(asset_id)
PerformanceAnalysis ==
    /\ pc = "perf"
    /\ \E fetch \in {f \in Failures : f \subseteq {<<"fetch", 0>>}} :
          LET telemetry_data == get_telemetry_data(asset_id, BASELINE_HOURS, fetch)
              analysis       == analyze_performance_trends(telemetry_data)
          IN  \E failed \in {f \in Failures : f \cap {<<"fetch", 0>>} = fetch} :
                 Finish("run_performance_analysis", fetch = {},
                        Stored(asset_id, BASELINE_HOURS), telemetry_data, <<>>,
                        run_performance_analysis(asset_id, telemetry_data, analysis,
                                                 failed),
                        failed)
    /\ UNCHANGED <<telemetries, assets, asset_id, baseline_data, workload, n_inserts,
                   marks>>
    /\ UNCHANGED <<given, answer, threads, disk_predictor>>

\* run_analysis_for_all_assets(), up to the loop
SweepStart ==
    /\ pc = "idle"
    /\ workload # <<>>
    /\ Head(workload) = Request("run_analysis_for_all_assets", NoAsset)
    /\ request' = "run_analysis_for_all_assets"
    /\ \E fetch \in {f \in Failures : f \subseteq {<<"fetch", 0>>}} :
          /\ sweep' = [assets |-> get_all_active_assets(fetch), i |-> 1,
                       results |-> <<>>]
          /\ n_faults' = n_faults + Cardinality(fetch)
    /\ pc' = "next_asset"
    /\ workload' = Tail(workload)
    /\ returned' = NotReturned
    /\ call' = NoCall
    /\ marks' = Append(marks, Mark("run_analysis_for_all_assets", NoAsset))
    /\ UNCHANGED <<telemetries, assets, ml_predictions, alerts, anomaly_detector,
                   asset_id, baseline_data, results, attempts, n_inserts>>
    /\ UNCHANGED <<given, answer, threads, disk_predictor>>

\* The head of the loop `for asset in assets`.  After the last asset the
\* sweep returns its results.  asset['asset_id'] of a document without the
\* field raises KeyError inside the try; the handler's log line reads
\* asset['asset_id'] again, so the KeyError leaves the handler and the sweep.
SweepNextAsset ==
    /\ pc = "next_asset"
    /\ IF sweep.i > Len(sweep.assets)
       THEN /\ returned' = [request |-> request, raised |-> FALSE,
                            value |-> sweep.results]
            /\ pc' = "idle"
            /\ request' = "idle"
            /\ UNCHANGED <<asset_id, results, attempts>>
       ELSE LET asset == sweep.assets[sweep.i]
            IN  IF "asset_id" \in DOMAIN asset
                THEN /\ asset_id' = asset.asset_id
                     /\ results' = NewBundle(asset.asset_id)
                     /\ attempts' = <<>>
                     /\ pc' = "disk"
                     /\ UNCHANGED <<returned, request>>
                ELSE /\ returned' = [request |-> request, raised |-> TRUE,
                                     value |-> Null]
                     /\ pc' = "idle"
                     /\ request' = "idle"
                     /\ UNCHANGED <<asset_id, results, attempts>>
    /\ UNCHANGED <<telemetries, assets, ml_predictions, alerts, anomaly_detector,
                   baseline_data, sweep, call, workload, n_inserts, n_faults, marks>>
    /\ UNCHANGED <<given, answer, threads, disk_predictor>>

\* the sample the collector may record: a busy machine
NewSample ==
    [timestamp |-> Now, cpu_usage_percent |-> 99, ram_usage_percent |-> 97,
     disk_usage_percent |-> 60]

\* The agent (agent/asset_agent.py) sends a telemetry sample of the asset
\* under analysis, which the store records, while an analysis is in progress.
RecordTelemetry ==
    /\ pc \in {"disk", "anomaly", "anomaly_recent", "perf"}
    /\ n_inserts < MaxInserts
    /\ telemetries' = [telemetries EXCEPT ![asset_id] = Append(@, NewSample)]
    /\ n_inserts' = n_inserts + 1
    /\ UNCHANGED <<assets, ml_predictions, alerts, anomaly_detector, request, pc,
                   asset_id, baseline_data, results, sweep, returned, call, attempts,
                   workload, n_faults, marks>>
    /\ UNCHANGED <<given, answer, threads, disk_predictor>>

Next ==
    \/ \E op \in Analyses \cup {"run_full_analysis"}, asset \in AssetIds : Call(op, asset)
    \/ DiskPrediction
    \/ AnomalyFetchBaseline
    \/ AnomalyDetection
    \/ PerformanceAnalysis
    \/ SweepStart
    \/ SweepNextAsset
    \/ RecordTelemetry

Spec == Init /\ [][Next]_vars

----------------------------------------------------------------------------
(* The analyzers' methods called on their own, as the modules' test blocks *)
(* call them: one call on arguments drawn from the sets below.             *)

\* samples in a window handed to the predictor
MaxWindow == 4

\* disk usage in tenths of a percent: 0.1, 45.2, 60.0, 99.9 and 100.0
DiskLevels == {1, 452, 600, 999, 1000}

\* a window with the given disk usages, one sample every step hours, in the
\* order of time or against it
Window(levels, step, newest_first) ==
    LET n == Len(levels)
    IN  [i \in 1..n |->
            LET k == IF newest_first THEN n + 1 - i ELSE i
            IN  [timestamp |-> (k - 1) * step, disk_usage_percent |-> levels[k]]]

Windows ==
    {Window(levels, 1, newest_first) :
        levels \in UNION {[1..n -> DiskLevels] : n \in 2..MaxWindow},
        newest_first \in BOOLEAN}

\* a week of hourly samples of a disk that fills by 0.1 percent an hour from
\* 60 percent, in tenths of a percent
RampSeries ==
    [i \in 1..BASELINE_HOURS |->
        [timestamp |-> i - 1, disk_usage_percent |-> 600 + (i - 1)]]

\* anomaly scores (thousandths) and usages on both sides of each threshold;
\* a point may lack a metric
SeverityArguments ==
    {[method |-> "_calculate_severity", anomaly_score |-> score, telemetry_point |-> point] :
        score \in {-600, -500, -400, -300, -100},
        point \in {[cpu_usage_percent |-> cpu, ram_usage_percent |-> ram,
                    disk_usage_percent |-> disk] :
                       cpu \in {50, 85, 86, 95, 96}, ram \in {40, 90}, disk \in {60, 96}}
                  \cup {[cpu_usage_percent |-> cpu, disk_usage_percent |-> 60] :
                           cpu \in {50, 86, 96}}}

\* the sample without the metric's number: the key absent, or None under it
Without(x, metric, null) ==
    LET rest == [f \in (DOMAIN x) \ {metric} |-> x[f]]
    IN  IF null THEN rest @@ [nulls |-> {metric}] ELSE rest

\* the window with its samples newest first
NewestFirst(w) == [i \in 1..Len(w) |-> w[Len(w) + 1 - i]]

\* ten-sample windows of each kind of history, as they are and with the
\* first or the last sample lacking a metric
DetectorWindows ==
    LET whole == Histories({"idle", "fast", "medium", "slow", "noisy"}, {<<0, 10>>})
    IN  whole \cup
        {[w EXCEPT ![k] = Without(w[k], Metrics[m], null)] :
            w \in whole, k \in {1, 10}, m \in 1..3, null \in BOOLEAN}

\* detect_anomalies on a window in either order, with the window itself or
\* its first nine samples as the baseline, by a detector that is new or was
\* trained on another machine's window
DetectorArguments ==
    {[method |-> "detect_anomalies", recent_telemetry_data |-> r, baseline_data |-> b,
      detector |-> d] :
        r \in DetectorWindows \cup {NewestFirst(w) : w \in DetectorWindows},
        b \in {"same", "short"},
        d \in {NewDetector,
               train_baseline(NewDetector, History(Profiles.idle, 0, 10)).detector}}

\* n samples of the value v
Steady(v, n) == [i \in 1..n |-> v]

\* cpu usage of five samples: steady at and beside the thresholds of the
\* average (70, 85), an average just above 70, a spike above 98 on a cool
\* and on a hot machine, a swinging load, and a reading above 100
CpuSeries ==
    {Steady(v, PERF_MIN_POINTS) : v \in {10, 70, 85, 86, 95, 120}}
    \cup {<<70, 70, 70, 70, 71>>, <<60, 60, 60, 60, 99>>, <<95, 95, 95, 95, 99>>,
          <<10, 90, 10, 90, 10>>}

\* ram usage at and beside the thresholds 80 and 90
RamSeries ==
    {Steady(v, PERF_MIN_POINTS) : v \in {40, 80, 81, 90, 91, 95}}
    \cup {<<90, 90, 90, 90, 91>>}

\* disk usage at and beside the thresholds 80 and 90
DiskSeries ==
    {Steady(v, PERF_MIN_POINTS) : v \in {75, 80, 81, 90, 91}}
    \cup {<<80, 80, 80, 81, 81>>}

\* hourly samples of the three series, from a Monday 00:00
PerformanceWindow(cpu, ram, disk) ==
    [i \in 1..Len(cpu) |->
        [timestamp |-> i - 1, cpu_usage_percent |-> cpu[i],
         ram_usage_percent |-> ram[i], disk_usage_percent |-> disk[i]]]

\* the window with the metric a key of none of its samples
WithoutColumn(w, metric) == [i \in 1..Len(w) |-> Without(w[i], metric, FALSE)]

\* windows of five samples, one too short, one of a week, and windows whose
\* samples all lack one metric
AnalyzerArguments ==
    {[method |-> "analyze_performance_trends", telemetry_data |-> w] :
        w \in {PerformanceWindow(cpu, ram, disk) :
                  cpu \in CpuSeries, ram \in RamSeries, disk \in DiskSeries}
              \cup {PerformanceWindow(Steady(95, n), Steady(95, n), Steady(75, n)) :
                       n \in {PERF_MIN_POINTS - 1, BASELINE_HOURS}}
              \cup {WithoutColumn(PerformanceWindow(Steady(95, PERF_MIN_POINTS),
                                                    Steady(95, PERF_MIN_POINTS),
                                                    Steady(75, PERF_MIN_POINTS)),
                                  Metrics[k]) : k \in 1..3}}

\* a rising window with one sample lacking its disk usage (absent or None),
\* and with all lacking it
WindowsWithGaps ==
    LET w == Window(<<600, 610, 620, 630>>, 1, FALSE)
    IN  {[w EXCEPT ![k] = Without(w[k], "disk_usage_percent", null)] :
            k \in 1..Len(w), null \in BOOLEAN}
        \cup {WithoutColumn(w, "disk_usage_percent")}

PredictorArguments ==
    {[method |-> "predict_disk_full_date", telemetry_data |-> w] :
        w \in Windows \cup {RampSeries} \cup WindowsWithGaps}

InitAnalyzers ==
    /\ telemetries = [a \in AssetIds |-> <<>>]
    /\ assets = <<>>
    /\ ml_predictions = <<>>
    /\ alerts = <<>>
    /\ anomaly_detector = NewDetector
    /\ request = "idle"
    /\ pc = "idle"
    /\ asset_id = NoAsset
    /\ baseline_data = NoFrame
    /\ results = Null
    /\ sweep = NoSweep
    /\ returned = NotReturned
    /\ call = NoCall
    /\ attempts = <<>>
    /\ workload = <<>>
    /\ n_inserts = 0
    /\ n_faults = 0
    /\ marks = <<>>
    /\ given \in PredictorArguments \cup SeverityArguments \cup DetectorArguments
                 \cup AnalyzerArguments
    /\ answer = Null
    /\ threads = <<>>
    /\ disk_predictor = Null

\* DiskSpacePredictor().predict_disk_full_date(telemetry_data), the usages
\* read in tenths of a percent
PredictDiskFull ==
    /\ answer = Null
    /\ given.method = "predict_disk_full_date"
    /\ answer' = predict_disk_full_date_in(given.telemetry_data, 10)
    /\ UNCHANGED given
    /\ UNCHANGED service_vars
    /\ UNCHANGED <<threads, disk_predictor>>

\* PerformanceAnomalyDetector()._calculate_severity(anomaly_score, telemetry_point)
CalculateSeverity ==
    /\ answer = Null
    /\ given.method = "_calculate_severity"
    /\ answer' = [severity |-> calculate_severity(given.anomaly_score,
                                                  given.telemetry_point)]
    /\ UNCHANGED given
    /\ UNCHANGED service_vars
    /\ UNCHANGED <<threads, disk_predictor>>

\* detector.detect_anomalies(recent_telemetry_data, baseline_data)
DetectAnomalies ==
    /\ answer = Null
    /\ given.method = "detect_anomalies"
    /\ answer' = detect_anomalies(
                     given.detector, given.recent_telemetry_data,
                     IF given.baseline_data = "same" THEN given.recent_telemetry_data
                     ELSE SubSeq(given.recent_telemetry_data, 1,
                                 BASELINE_MIN_POINTS - 1)).result
    /\ UNCHANGED given
    /\ UNCHANGED service_vars
    /\ UNCHANGED <<threads, disk_predictor>>

\* PerformanceAnalyzer().analyze_performance_trends(telemetry_data)
AnalyzePerformance ==
    /\ answer = Null
    /\ given.method = "analyze_performance_trends"
    /\ answer' = analyze_performance_trends(given.telemetry_data)
    /\ UNCHANGED given
    /\ UNCHANGED service_vars
    /\ UNCHANGED <<threads, disk_predictor>>

NextAnalyzers ==
    \/ PredictDiskFull
    \/ CalculateSeverity
    \/ DetectAnomalies
    \/ AnalyzePerformance

SpecAnalyzers == InitAnalyzers /\ [][NextAnalyzers]_vars

----------------------------------------------------------------------------
(* Properties of the service.  `call` describes the last finished analysis *)
(* call: the window it fetched (n, n_recent), whether it invoked its       *)
(* analyzer and the analyzer's result, what it returned, the inserts it    *)
(* made (tried), those the store rejected (failed) and the documents that  *)
(* went in (preds, alerts).                                                *)

PredictionTypeOf(op) ==
    CASE op = "run_disk_prediction" -> "disk_space_prediction"
      [] op = "run_anomaly_detection" -> "anomaly_detection"
      [] op = "run_performance_analysis" -> "performance_analysis"

SaveCall == <<"save", 0>>

\* the last finished call invoked its analyzer, which answered success=true
AnalyzerSucceeded == call.invoked /\ call.result.success

\* C1: no analysis invokes its analyzer on a window with fewer samples than
\* the analyzer needs (disk predictor 3, performance analyzer 5, anomaly
\* detector 10 in the baseline and 10 in the recent window); below that the
\* analyzer is skipped and the operation returns null.
C1_AnalyzerNeverBelowItsNeed ==
    LET enough ==
            CASE call.op = "run_disk_prediction" -> call.n >= DISK_MIN_POINTS
              [] call.op = "run_performance_analysis" -> call.n >= PERF_MIN_POINTS
              [] call.op = "run_anomaly_detection" ->
                     call.n >= BASELINE_MIN_POINTS /\ call.n_recent >= FEATURE_MIN_POINTS
              [] OTHER -> TRUE
    IN  /\ call.invoked => enough
        /\ ~enough => call.ret = Null

\* C2: an analysis whose window has fewer samples than the minimum sample
\* count (the configured minimum of 3 for every analysis, 5 for the
\* performance analyzer and for the recent window of the anomaly detection)
\* makes no insert: no PredictionRecord and no Alert; and after a
\* run_full_analysis of an asset with fewer than 3 stored samples both
\* collections hold nothing of that asset.
C2_NothingInsertedBelowMinimum ==
    /\ (\/ call.n < MINIMUM_DATA_POINTS
        \/ call.op = "run_performance_analysis" /\ call.n < PERF_MIN_POINTS
        \/ call.op = "run_anomaly_detection" /\ call.n_recent < MIN_RECENT_POINTS)
       => call.tried = {} /\ call.preds = <<>> /\ call.alerts = <<>>
    /\ (returned.request = "run_full_analysis" /\
        Stored(asset_id, BASELINE_HOURS) < MINIMUM_DATA_POINTS)
       => /\ \A i \in DOMAIN ml_predictions : ml_predictions[i].asset_id # asset_id
          /\ \A i \in DOMAIN alerts : alerts[i].asset_id # asset_id

\* a run_full_analysis has returned for an asset with two stored samples
C2_Witness ==
    /\ returned.request = "run_full_analysis"
    /\ Stored(asset_id, BASELINE_HOURS) = 2
    /\ call.op = "run_performance_analysis"
    /\ call.n = 2

\* what C3 asks of a call that has to persist its result: one save_prediction
\* call, which inserts exactly one record of the analysis' type carrying a
\* model_version (nothing when the store rejects the insert)
OneRecordSaved ==
    /\ SaveCall \in call.tried
    /\ IF SaveCall \in call.failed THEN call.preds = <<>>
       ELSE /\ Len(call.preds) = 1
            /\ call.preds[1].asset_id = call.asset_id
            /\ call.preds[1].prediction_type = PredictionTypeOf(call.op)
            /\ call.preds[1].prediction_data = call.result
            /\ "model_version" \in DOMAIN call.preds[1]

Persisted ==
    /\ AnalyzerSucceeded
    /\ call.op = "run_anomaly_detection" => call.result.anomaly_count > 0

FullAnalysisOrder ==
    <<"run_disk_prediction", "run_anomaly_detection", "run_performance_analysis">>

\* C4: run_full_analysis attempts the three analyses in the order disk
\* prediction, anomaly detection, performance analysis, and always all
\* three: whatever an earlier one returned, the later ones run and the
\* bundle holds what each returned.
C4_AllThreeInOrder ==
    /\ request \in {"run_full_analysis", "run_analysis_for_all_assets"}
       => attempts = SubSeq(FullAnalysisOrder, 1, Len(attempts))
    /\ returned.request = "run_full_analysis"
       => /\ attempts = FullAnalysisOrder
          /\ returned.value.asset_id = asset_id
          /\ returned.value.performance_analysis = call.ret
    /\ (request = "run_analysis_for_all_assets" /\ pc = "next_asset" /\
        sweep.results # <<>>)
       => /\ attempts = FullAnalysisOrder
          /\ sweep.results[Len(sweep.results)].performance_analysis = call.ret

\* a run_full_analysis whose disk prediction returned null still returned a
\* performance analysis
C4_Witness ==
    /\ returned.request = "run_full_analysis"
    /\ returned.value.disk_prediction = Null
    /\ returned.value.performance_analysis # Null
    /\ Len(ml_predictions) > 0

BundleFields == {"disk_prediction", "anomaly_detection", "performance_analysis"}

\* C5: in the bundle run_full_analysis returns, a field is null whenever its
\* analysis had insufficient data or its analyzer answered success=false: a
\* field that is not null is a success=true payload.
C5_NonNullFieldIsSuccess ==
    returned.request = "run_full_analysis"
    => \A f \in BundleFields :
          returned.value[f] = Null \/ returned.value[f].success

\* the disk prediction of the last call succeeded with days_remaining below
\* the warning threshold of 7 days
DiskWarningDue ==
    /\ AnalyzerSucceeded
    /\ call.result.days_remaining # None
    /\ call.result.days_remaining[1] < 10 * DISK_FULL_WARNING_DAYS

\* C6: run_disk_prediction creates one alert exactly when the prediction
\* succeeded with a non-null days_remaining below 7 days, High when
\* days_remaining < 3 and Medium otherwise; the sentinel 999 and a failed
\* prediction create none.
C6_DiskAlertRule ==
    call.op = "run_disk_prediction"
    => /\ call.tried \cap {AlertCall(i) : i \in 1..3} =
              (IF DiskWarningDue THEN {AlertCall(1)} ELSE {})
       /\ Len(call.alerts) =
              (IF DiskWarningDue /\ AlertCall(1) \notin call.failed THEN 1 ELSE 0)
       /\ \A i \in DOMAIN call.alerts :
             /\ call.alerts[i].asset_id = call.asset_id
             /\ call.alerts[i].severity =
                    (IF call.result.days_remaining[1] < 10 * DISK_HIGH_SEVERITY_DAYS
                     THEN "High" ELSE "Medium")
       /\ (AnalyzerSucceeded /\ call.result.days_remaining = Some(9990))
          => call.alerts = <<>>

\* a disk prediction between 3 and 7 days raised its Medium alert
C6_Witness ==
    /\ call.op = "run_disk_prediction"
    /\ DiskWarningDue
    /\ call.result.days_remaining[1] >= 10 * DISK_HIGH_SEVERITY_DAYS
    /\ Len(call.alerts) = 1
    /\ call.alerts[1].severity = "Medium"

\* the anomalies the last call's detector reported, none when it was not
\* invoked or failed
ReportedAnomalies == IF AnalyzerSucceeded THEN call.result.anomalies ELSE <<>>

HighAnomalyCount ==
    Cardinality({i \in DOMAIN ReportedAnomalies : ReportedAnomalies[i].severity = "High"})

\* C7: run_anomaly_detection creates at most one alert per call: a High
\* alert citing the number of High anomalies when there is one; otherwise a
\* Medium alert citing anomaly_count when anomaly_count >= 3; otherwise none.
C7_AnomalyAlertRule ==
    call.op = "run_anomaly_detection"
    => LET due == IF HighAnomalyCount > 0 THEN "High"
                  ELSE IF Len(ReportedAnomalies) >= MULTIPLE_ANOMALIES THEN "Medium"
                  ELSE "none"
       IN  /\ call.tried \cap {AlertCall(i) : i \in 1..3} =
                  (IF due # "none" THEN {AlertCall(1)} ELSE {})
           /\ Len(call.alerts) =
                  (IF due # "none" /\ AlertCall(1) \notin call.failed THEN 1 ELSE 0)
           /\ \A i \in DOMAIN call.alerts :
                 /\ call.alerts[i].asset_id = call.asset_id
                 /\ call.alerts[i].severity = due
                 /\ call.alerts[i].message.value =
                        (IF due = "High" THEN HighAnomalyCount
                         ELSE call.result.anomaly_count)
           /\ AnalyzerSucceeded => call.result.anomaly_count = Len(ReportedAnomalies)

\* an anomaly detection without High anomalies raised its Medium alert
C7_Witness ==
    /\ call.op = "run_anomaly_detection"
    /\ HighAnomalyCount = 0
    /\ Len(ReportedAnomalies) >= MULTIPLE_ANOMALIES
    /\ Len(call.alerts) = 1
    /\ call.alerts[1].severity = "Medium"

\* the High recommendations of the last call's analysis, none when the
\* analyzer was not invoked or failed
HighRecommendations ==
    IF AnalyzerSucceeded
    THEN SelectSeq(call.result.recommendations, LAMBDA r : r.priority = "High")
    ELSE <<>>

\* C8: run_performance_analysis creates one Medium alert for each High
\* recommendation of a successful analysis, as many alerts as there are High
\* recommendations, and none for a Medium or Low recommendation or a failed
\* analysis.
C8_PerformanceAlertRule ==
    call.op = "run_performance_analysis"
    => LET made == {i \in 1..3 : AlertCall(i) \in call.tried}
           kept == SelectSeq(HighRecommendations,
                             LAMBDA r : \E i \in made \ {j \in 1..3 : AlertCall(j) \in call.failed} :
                                           HighRecommendations[i] = r)
       IN  /\ made = 1..Len(HighRecommendations)
           /\ Len(call.alerts) = Cardinality(made) - Cardinality(call.failed \ {SaveCall})
           /\ \A i \in DOMAIN call.alerts :
                 /\ call.alerts[i].asset_id = call.asset_id
                 /\ call.alerts[i].severity = "Medium"
                 /\ call.alerts[i].prediction_data.priority = "High"
           /\ [i \in DOMAIN call.alerts |-> call.alerts[i].prediction_data] = kept

\* a performance analysis with two High and some other recommendations
\* raised its two alerts
C8_Witness ==
    /\ call.op = "run_performance_analysis"
    /\ Len(HighRecommendations) = 2
    /\ Len(call.result.recommendations) > 2
    /\ Len(call.alerts) = 2

\* an analysis call finishes in this step
CallFinishes == Len(attempts') = Len(attempts) + 1

C10_SweepNeverRaises ==
    returned.request = "run_analysis_for_all_assets" => ~returned.raised

\* C11: the detector keeps no state between calls: the result of
\* run_anomaly_detection is a function of the baseline and recent windows
\* of the call only, the same as a detector that has analyzed nothing yet
\* gives on them.
C11_ResultDependsOnWindowsOnly ==
    (call.op = "run_anomaly_detection" /\ call.invoked)
    => call.result = detect_anomalies(NewDetector, call.recent, call.window).result

\* What an analysis of the asset by a service that has analyzed nothing yet
\* computes from the stored telemetry.
FreshResult(op, asset) ==
    LET week == get_telemetry_data(asset, BASELINE_HOURS, {})
        day  == get_telemetry_data(asset, RECENT_HOURS, {})
    IN  CASE op = "run_disk_prediction" -> predict_disk_full_date(week)
          [] op = "run_anomaly_detection" ->
                 detect_anomalies(NewDetector, day, week).result
          [] op = "run_performance_analysis" -> analyze_performance_trends(week)

\* both requests were run_full_analysis of one asset, the second has
\* returned, and the stored telemetry is what it was at the start
TwoFullRuns ==
    /\ Len(marks) = 2
    /\ marks[1].op = "run_full_analysis" /\ marks[2].op = "run_full_analysis"
    /\ marks[1].asset_id = marks[2].asset_id
    /\ returned.request = "run_full_analysis"
    /\ n_inserts = 0

FirstRunRecords == SubSeq(ml_predictions, 1, marks[2].preds)

SecondRunRecords == SubSeq(ml_predictions, marks[2].preds + 1, Len(ml_predictions))

\* C12: with the stored telemetry unchanged, the record an analysis saves
\* is what a service that has analyzed nothing before saves for the asset, so
\* after run_full_analysis ran twice on one asset the records of the second
\* run equal those of the first, kind by kind (the model's records carry no
\* creation time), and the two runs' records are the same when no insert failed.
C12_RepeatedAnalysisSameRecords ==
    /\ (call.invoked /\ n_inserts = 0) =>
           \A i \in 1..Len(call.preds) :
               call.preds[i] = [asset_id |-> call.asset_id,
                                prediction_type |-> PredictionTypeOf(call.op),
                                prediction_data |-> FreshResult(call.op, call.asset_id),
                                model_version |-> "1.0.0"]
    /\ TwoFullRuns =>
           /\ \A i \in 1..Len(FirstRunRecords), j \in 1..Len(SecondRunRecords) :
                  FirstRunRecords[i].prediction_type = SecondRunRecords[j].prediction_type
                  => FirstRunRecords[i] = SecondRunRecords[j]
           /\ n_faults = 0 => FirstRunRecords = SecondRunRecords

\* run_full_analysis ran twice on unchanged telemetry without a failed
\* insert, each run saved a disk prediction, an anomaly result and a
\* performance report
C12_Witness ==
    /\ TwoFullRuns
    /\ n_faults = 0
    /\ Len(FirstRunRecords) = 3
    /\ Len(SecondRunRecords) = 3

\* old is a prefix of new
IsPrefix(old, new) == Len(old) <= Len(new) /\ SubSeq(new, 1, Len(old)) = old

\* C13: prediction records and alerts are append-only: every step leaves
\* the documents already in ml_predictions and alerts in place and unchanged,
\* adding new ones after them; no step of the service changes the asset
\* records, and the telemetry changes only where the collector records a
\* sample.
C13_StoresOnlyGrow ==
    [][/\ IsPrefix(ml_predictions, ml_predictions')
       /\ IsPrefix(alerts, alerts')
       /\ assets' = assets
       /\ n_inserts' = n_inserts => telemetries' = telemetries]_vars

\* a second request added a record and an alert after those of the first
C13_Witness ==
    /\ Len(marks) = 2
    /\ marks[2].preds > 0 /\ marks[2].alerts > 0
    /\ Len(ml_predictions) > marks[2].preds
    /\ Len(alerts) > marks[2].alerts

\* the same request was made twice for one asset, the second has returned,
\* the stored telemetry is what it was at the start and no store call failed
SameRequestTwice ==
    /\ Len(marks) = 2
    /\ marks[1].op = marks[2].op
    /\ marks[1].asset_id = marks[2].asset_id
    /\ returned.request = marks[2].op
    /\ n_inserts = 0
    /\ n_faults = 0

FirstRunAlerts == SubSeq(alerts, 1, marks[2].alerts)

SecondRunAlerts == SubSeq(alerts, marks[2].alerts + 1, Len(alerts))

\* C14: alerts are not deduplicated: a request repeated on unchanged data
\* raises the alerts of the first run again, so that two runs leave twice
\* the alerts of one.
C14_RepeatedRunRepeatsAlerts ==
    SameRequestTwice =>
        /\ SecondRunAlerts = FirstRunAlerts
        /\ Len(alerts) = 2 * Len(FirstRunAlerts)

\* a repeated request whose first run raised an alert
C14_Witness ==
    /\ SameRequestTwice
    /\ Len(FirstRunAlerts) > 0
    /\ Len(SecondRunAlerts) = Len(FirstRunAlerts)

\* the alert type of each analysis
AlertTypeOf(op) ==
    CASE op = "run_disk_prediction" -> "ml_prediction"
      [] op = "run_anomaly_detection" -> "performance_anomaly"
      [] op = "run_performance_analysis" -> "maintenance_recommendation"

Severities == {"Low", "Medium", "High"}

\* C15: every alert of the service is created Open and marked
\* ml_generated, with a severity among Low, Medium and High; the alerts an
\* analysis call creates carry the analyzed asset's id and the alert type of
\* that analysis.
C15_AlertShape ==
    /\ \A k \in 1..Len(alerts) :
           /\ alerts[k].status = "Open"
           /\ alerts[k].ml_generated
           /\ alerts[k].severity \in Severities
           /\ alerts[k].type \in {AlertTypeOf(op) : op \in Analyses}
           /\ alerts[k].asset_id \in AssetIds
    /\ \A k \in 1..Len(call.alerts) :
           /\ call.alerts[k].asset_id = call.asset_id
           /\ call.alerts[k].type = AlertTypeOf(call.op)

\* the store holds an alert of each type, one of them High and one for
\* each asset
C15_Witness ==
    /\ \A op \in Analyses : \E k \in 1..Len(alerts) : alerts[k].type = AlertTypeOf(op)
    /\ \E k \in 1..Len(alerts) : alerts[k].severity = "High"
    /\ \A a \in AssetIds : \E k \in 1..Len(alerts) : alerts[k].asset_id = a

\* the place of the asset in the store's order
Position(a) ==
    CHOOSE k \in 1..Len(assets) : "asset_id" \in DOMAIN assets[k] /\ assets[k].asset_id = a

\* the documents follow the assets' order: none of an asset comes after one
\* of a later asset
InAssetOrder(docs) ==
    \A i, j \in 1..Len(docs) :
        i < j => Position(docs[i].asset_id) <= Position(docs[j].asset_id)

SweepRequested == marks # <<>> /\ marks[1].op = "run_analysis_for_all_assets"

\* C16: the sweep takes the assets one at a time in the store's order:
\* all the records and alerts of one asset are inserted before any of the
\* next, the analysis in progress is that of the asset the loop stands at,
\* and the list it returns holds at most one bundle per asset, in that order.
C16_SweepInStoreOrder ==
    SweepRequested =>
        /\ InAssetOrder(ml_predictions)
        /\ InAssetOrder(alerts)
        /\ \A i, j \in 1..Len(sweep.results) :
               i < j => Position(sweep.results[i].asset_id)
                            < Position(sweep.results[j].asset_id)
        /\ pc \in {"disk", "anomaly", "anomaly_recent", "perf"} =>
               /\ asset_id = assets[sweep.i].asset_id
               /\ \A k \in 1..Len(sweep.results) :
                      Position(sweep.results[k].asset_id) < sweep.i
        /\ (returned.request = "run_analysis_for_all_assets" /\ ~returned.raised) =>
               returned.value = sweep.results

\* the sweep returned a bundle for each of the two assets after it saved
\* records and raised alerts for both
C16_Witness ==
    /\ SweepRequested
    /\ returned.request = "run_analysis_for_all_assets"
    /\ ~returned.raised
    /\ Len(returned.value) = 2
    /\ \A a \in AssetIds :
           /\ \E k \in 1..Len(ml_predictions) : ml_predictions[k].asset_id = a
           /\ \E k \in 1..Len(alerts) : alerts[k].asset_id = a

----------------------------------------------------------------------------
(* Claims about the analyzers' methods (SpecAnalyzers).                    *)

\* the predictor has answered for the noise-free week of 60 + 0.1 * hour
RampAnswered ==
    /\ answer # Null
    /\ given.method = "predict_disk_full_date"
    /\ given.telemetry_data = RampSeries

\* C17 as stated: for 168 hourly samples of 60 + 0.1 * hour the predictor
\* succeeds with confidence about 1.0, trend "slowly_increasing" and about
\* 16.7 days remaining.
C17_RampSixteenDays ==
    RampAnswered =>
        /\ answer.success
        /\ answer.confidence >= 99
        /\ answer.trend = "slowly_increasing"
        /\ answer.days_remaining \in {Some(d) : d \in 165..169}

\* C17: for 168 hourly samples of 60 + 0.1 * hour the predictor succeeds
\* with confidence 1.0 and a daily increase of 2.4 percent; the line reaches
\* 100 percent 400 hours after the first sample, which is 233 hours after
\* the last one, so days_remaining is 9.7; the fitted slope is the 0.1
\* threshold itself, the trend being "slowly_increasing" unless rounding
\* puts the slope above it.
C17_RampNineDays ==
    RampAnswered =>
        /\ answer.success
        /\ answer.confidence = 100
        /\ answer.daily_increase_rate = 240
        /\ answer.days_remaining = Some(97)
        /\ answer.trend \in {"slowly_increasing", "increasing"}

C17_Witness == RampAnswered /\ answer.success /\ answer.current_usage = 767

\* the predictor has answered for a window whose samples all have their disk
\* usage
PredictorAnswered ==
    /\ answer # Null
    /\ given.method = "predict_disk_full_date"
    /\ ~HasGap(given.telemetry_data, "disk_usage_percent")

\* the window handed to the predictor holds one disk usage throughout
FlatWindow ==
    \A i \in 1..Len(given.telemetry_data) :
        given.telemetry_data[i].disk_usage_percent
            = given.telemetry_data[1].disk_usage_percent

\* C18: a window of at least 3 samples with a constant disk usage is
\* answered with success, trend "stable" and 999 days remaining.
C18_FlatSeriesIsStable ==
    (PredictorAnswered /\ Len(given.telemetry_data) >= DISK_MIN_POINTS /\ FlatWindow)
    => /\ answer.success
       /\ answer.trend = "stable"
       /\ answer.days_remaining = Some(9990)

\* the fit of the window handed to the predictor
GivenFit == LinearRegression_fit(sort_values(given.telemetry_data), 10)

\* C19: the predictor gives every window exactly one outcome, decided in
\* this order: fewer than 3 samples, failure for lack of data; confidence
\* below 0.30, failure for inconsistency; slope not positive, success with
\* trend "stable" and 999 days; otherwise success with the days from the
\* last sample to where the fitted line reaches 100 percent, never
\* negative.  days_remaining is null exactly when success is false.
C19_OutcomesInOrder ==
    PredictorAnswered =>
        /\ IF Len(given.telemetry_data) < DISK_MIN_POINTS
           THEN /\ ~answer.success
                /\ answer.message = "Insufficient data for prediction"
           ELSE IF ConfidenceBelowFloor(GivenFit)
           THEN /\ ~answer.success
                /\ answer.message = "Data too inconsistent for reliable prediction"
                /\ answer.confidence <= 30
           ELSE IF GivenFit.slope.num <= 0
           THEN /\ answer.success
                /\ answer.trend = "stable"
                /\ answer.days_remaining = Some(9990)
           ELSE /\ answer.success
                /\ answer.trend # "stable"
                /\ answer.days_remaining = Some(DaysToFull10(GivenFit))
                /\ answer.days_remaining[1] >= 0
                /\ answer.confidence >= 30
        /\ answer.days_remaining = None <=> ~answer.success

\* a rising window whose fitted line is past 100 percent at the last sample
\* was answered with 0 days, the samples having been handed over newest
\* first
C19_Witness ==
    /\ PredictorAnswered
    /\ answer.success
    /\ answer.trend = "rapidly_increasing"
    /\ answer.days_remaining = Some(0)
    /\ ~IsSorted(given.telemetry_data)

SeverityRank(severity) ==
    CASE severity = "none" -> 0
      [] severity = "Low" -> 1
      [] severity = "Medium" -> 2
      [] severity = "High" -> 3

\* the severity the score alone gives
ScoreSeverity ==
    IF given.anomaly_score < -500 THEN "High"
    ELSE IF given.anomaly_score < -300 THEN "Medium"
    ELSE "Low"

\* the usages of the point, 0 for a metric it lacks
GivenUsages ==
    {get(given.telemetry_point, f, 0) :
        f \in {"cpu_usage_percent", "ram_usage_percent", "disk_usage_percent"}}

\* the severity the usages alone give
UsageSeverity ==
    IF \E usage \in GivenUsages : usage > 95 THEN "High"
    ELSE IF \E usage \in GivenUsages : usage > 85 THEN "Medium"
    ELSE "none"

SeverityAnswered == answer # Null /\ given.method = "_calculate_severity"

\* C20: the severity of an anomalous sample is the higher of the
\* severity of its score and the severity of its usages; it is never below
\* the severity of its score.
C20_SeverityIsTheMaximum ==
    SeverityAnswered =>
        /\ SeverityRank(answer.severity)
               = Max(SeverityRank(ScoreSeverity), SeverityRank(UsageSeverity))
        /\ SeverityRank(answer.severity) >= SeverityRank(ScoreSeverity)

\* a sample with a High score and a usage between 85 and 95 was rated High
C20_Witness ==
    /\ SeverityAnswered
    /\ ScoreSeverity = "High"
    /\ UsageSeverity = "Medium"
    /\ answer.severity = "High"

----------------------------------------------------------------------------
(* Claims about the detector's windows.                                    *)

\* C21: detect_anomalies fails for lack of data whenever the baseline
\* or the recent window it is given has fewer than 10 samples, whatever the
\* detector has done before.
C21_ShortWindowFails ==
    (/\ call.op = "run_anomaly_detection"
     /\ call.invoked
     /\ (Len(call.window) < BASELINE_MIN_POINTS \/ Len(call.recent) < FEATURE_MIN_POINTS))
    => ~call.result.success

\* the samples of a window
SamplesOf(window) == {window[i] : i \in 1..Len(window)}

\* C22: the scaler and the model are fitted from the baseline window
\* only: no sample scored as part of the recent window is among the samples
\* of the fit.
C22_RecentNotInFit ==
    (call.op = "run_anomaly_detection" /\ call.invoked /\ call.result.success)
    => SamplesOf(call.recent) \cap SamplesOf(call.window) = {}

DetectorAnswered == answer # Null /\ given.method = "detect_anomalies"

\* some sample of the recent window lacks a metric's number
SomeMetricAbsent ==
    \E i \in 1..Len(given.recent_telemetry_data), k \in 1..3 :
        Metrics[k] \notin DOMAIN given.recent_telemetry_data[i]

\* C23: a sample whose cpu, ram or disk value is missing or null counts
\* as 0 for that metric, and detect_anomalies succeeds on a window (with a
\* baseline of 10 samples) that holds such a sample.
C23_AbsentMetricIsZero ==
    (DetectorAnswered /\ SomeMetricAbsent /\ given.baseline_data = "same")
    => answer.success

\* ---------------------------------------------------------------------
\* C24
\* ---------------------------------------------------------------------

AnalyzerAnswered == answer # Null /\ given.method = "analyze_performance_trends"

\* the recommendations of the answer that have one of the types
RecsOfType(types) ==
    {i \in 1..Len(answer.recommendations) : answer.recommendations[i].type \in types}

\* the given values of a metric, their sum and their largest
GivenValues(metric) ==
    [i \in 1..Len(given.telemetry_data) |-> given.telemetry_data[i][metric]]

GivenSum(metric) == SumTo(GivenValues(metric), Len(given.telemetry_data))

GivenMax(metric) ==
    CHOOSE v \in SamplesOf(GivenValues(metric)) :
        \A u \in SamplesOf(GivenValues(metric)) : u <= v

GivenAvgAbove(metric, t) == GivenSum(metric) > t * Len(given.telemetry_data)

\* sample standard deviation of the given values above t:
\*   (sum (n*x - S)^2) / n > t^2 * n * (n - 1), the sum being a multiple of n
GivenStdAbove(metric, t) ==
    LET n == Len(given.telemetry_data)
        S == GivenSum(metric)
        v == GivenValues(metric)
    IN  SumTo([i \in 1..n |-> (n * v[i] - S) * (n * v[i] - S)], n) \div n > t * t * n * (n - 1)

AverageRules ==
    {[metric |-> "cpu_usage_percent", high |-> "cpu_high_average",
      medium |-> "cpu_moderate", above_high |-> 85, above_medium |-> 70],
     [metric |-> "ram_usage_percent", high |-> "ram_upgrade_needed",
      medium |-> "ram_monitor", above_high |-> 90, above_medium |-> 80],
     [metric |-> "disk_usage_percent", high |-> "disk_cleanup_urgent",
      medium |-> "disk_cleanup_planned", above_high |-> 90, above_medium |-> 80]}

\* C24: an analysis that succeeds gives each metric at most one recommendation
\* from its average: the High one exactly when the average is above the high
\* threshold (cpu 85, ram 90, disk 90), the Medium one exactly when it is
\* above the medium threshold (70, 80, 80) and not above the high one, and
\* none otherwise; the cpu spike recommendation is present exactly when the
\* largest cpu value is above 98 and the cpu variability recommendation
\* exactly when the standard deviation of cpu is above 25, whatever the
\* average rules gave.
C24_OneAverageRulePerMetric ==
    (AnalyzerAnswered /\ answer.success) =>
        /\ \A r \in AverageRules :
            /\ Cardinality(RecsOfType({r.high, r.medium})) <= 1
            /\ RecsOfType({r.high}) # {} <=> GivenAvgAbove(r.metric, r.above_high)
            /\ RecsOfType({r.medium}) # {} <=>
                   (GivenAvgAbove(r.metric, r.above_medium)
                    /\ ~GivenAvgAbove(r.metric, r.above_high))
            /\ \A i \in RecsOfType({r.high}) : answer.recommendations[i].priority = "High"
            /\ \A i \in RecsOfType({r.medium}) :
                   answer.recommendations[i].priority = "Medium"
        /\ Cardinality(RecsOfType({"cpu_spikes"})) =
               (IF GivenMax("cpu_usage_percent") > 98 THEN 1 ELSE 0)
        /\ Cardinality(RecsOfType({"cpu_variability"})) =
               (IF GivenStdAbove("cpu_usage_percent", 25) THEN 1 ELSE 0)

\* a hot machine with a spike: the High cpu recommendation and the spike
\* recommendation are both given, next to a Medium one for ram
C24_Witness ==
    /\ AnalyzerAnswered
    /\ answer.success
    /\ RecsOfType({"cpu_high_average"}) # {}
    /\ RecsOfType({"cpu_spikes"}) # {}
    /\ RecsOfType({"ram_monitor"}) # {}
    /\ RecsOfType({"cpu_variability"}) = {}

\* ---------------------------------------------------------------------
\* C25
\* ---------------------------------------------------------------------

\* n * (100 - average) of the given values of a metric
GivenHeadroom(metric) == 100 * Len(given.telemetry_data) - GivenSum(metric)

\* the weighted sum of the headrooms clamped to 0..100 as a whole, in tenths
ClampedWeightedSum ==
    Min(1000,
        RoundDiv(Max(0, 4 * GivenHeadroom("cpu_usage_percent")
                          + 4 * GivenHeadroom("ram_usage_percent")
                          + 2 * GivenHeadroom("disk_usage_percent")),
                 Len(given.telemetry_data)))

\* the weighted sum of the headrooms each floored at 0, in tenths
FlooredWeightedSum ==
    RoundDiv(4 * Max(0, GivenHeadroom("cpu_usage_percent"))
               + 4 * Max(0, GivenHeadroom("ram_usage_percent"))
               + 2 * Max(0, GivenHeadroom("disk_usage_percent")),
             Len(given.telemetry_data))

\* the given window is steady at the three values
GivenSteadyAt(cpu, ram, disk) ==
    \A i \in 1..Len(given.telemetry_data) :
        /\ given.telemetry_data[i].cpu_usage_percent = cpu
        /\ given.telemetry_data[i].ram_usage_percent = ram
        /\ given.telemetry_data[i].disk_usage_percent = disk

EntryPoints == {"predict_disk_full_date", "detect_anomalies", "analyze_performance_trends"}

\* a failure inside the entry point: the predictor fits a column with a gap,
\* the analyzer reads a column no sample has, the detector compares None
\* with a number
InternalFailure ==
    \/ /\ given.method = "predict_disk_full_date"
       /\ Len(given.telemetry_data) >= DISK_MIN_POINTS
       /\ HasGap(given.telemetry_data, "disk_usage_percent")
    \/ /\ given.method = "analyze_performance_trends"
       /\ Len(given.telemetry_data) >= PERF_MIN_POINTS
       /\ \E k \in 1..3 : NoColumn(given.telemetry_data, Metrics[k])
    \/ /\ given.method = "detect_anomalies"
       /\ answer.message = "Anomaly detection error"

\* C26: what an analyzer entry point gives back is always a payload with
\* success and a message, never an exception; a failure inside it gives
\* success = false.
C26_AnalyzersReturnPayloads ==
    (answer # Null /\ given.method \in EntryPoints) =>
        /\ {"success", "message"} \subseteq DOMAIN answer
        /\ answer.success \in BOOLEAN
        /\ InternalFailure => ~answer.success

\* the analyzer asked about a window without cpu usage answers with its
\* error payload
C26_Witness ==
    /\ AnalyzerAnswered
    /\ NoColumn(given.telemetry_data, "cpu_usage_percent")
    /\ ~answer.success
    /\ answer.message = "Analysis error"

\* ---------------------------------------------------------------------
\* C27
\* ---------------------------------------------------------------------

\* C27: an analysis call inserts an alert only after it has inserted the
\* prediction record of the result the alert is derived from: a call that
\* inserted an alert has inserted its record.
C27_AlertOnlyAfterRecord ==
    (call.op \in Analyses /\ call.alerts # <<>>) => call.preds # <<>>

\* ---------------------------------------------------------------------
\* C28
\* ---------------------------------------------------------------------

\* C28: in a run_anomaly_detection call whose two fetches both succeed, the
\* samples of the recent window are samples of the baseline window of the
\* same call, and the recent window is no longer than the baseline.
C28_RecentWithinBaseline ==
    (call.op = "run_anomaly_detection" /\ call.fetch_ok) =>
        /\ SamplesOf(call.recent) \subseteq SamplesOf(call.window)
        /\ Len(call.recent) <= Len(call.window)

\* ---------------------------------------------------------------------
\* C29
\* ---------------------------------------------------------------------

\* the detector as the call leaves it, and the baseline the call was given
GivenBaseline ==
    IF given.baseline_data = "same" THEN given.recent_telemetry_data
    ELSE SubSeq(given.recent_telemetry_data, 1, BASELINE_MIN_POINTS - 1)

FittedScaler ==
    detect_anomalies(given.detector, given.recent_telemetry_data, GivenBaseline).detector.scaler

\* the recent samples whose own feature vector the fitted model labels outlier
OutlierSamples ==
    {i \in 1..Len(given.recent_telemetry_data) :
        predict(FittedScaler, FeatureVector(given.recent_telemetry_data[i])) = -1}

\* no sample of the recent window holds None
NoNulls ==
    \A i \in 1..Len(given.recent_telemetry_data), k \in 1..3 :
        ~IsNull(given.recent_telemetry_data[i], Metrics[k])

\* the entry reports the sample: its timestamp, its three usages and the
\* severity computed from them and the sample's score
Reports(entry, x) ==
    /\ entry.timestamp = x.timestamp
    /\ entry.cpu_usage = get(x, Metrics[1], 0)
    /\ entry.ram_usage = get(x, Metrics[2], 0)
    /\ entry.disk_usage = get(x, Metrics[3], 0)
    /\ entry.severity =
           calculate_severity(decision_function(FittedScaler, FeatureVector(x)), x)

\* C29: a detection that succeeds lists one entry per recent sample whose
\* feature vector was labelled outlier, and each entry reports the timestamp,
\* the cpu, ram and disk usage and the severity of such a sample, in
\* whatever order the samples were supplied.
C29_EntriesReportOutliers ==
    (DetectorAnswered /\ answer.success /\ NoNulls) =>
        /\ Len(answer.anomalies) = Cardinality(OutlierSamples)
        /\ \A k \in 1..Len(answer.anomalies) :
               \E i \in OutlierSamples :
                   Reports(answer.anomalies[k], given.recent_telemetry_data[i])
        /\ \A i \in OutlierSamples :
               \E k \in 1..Len(answer.anomalies) :
                   Reports(answer.anomalies[k], given.recent_telemetry_data[i])

----------------------------------------------------------------------------
(* Two requests at once.  app.run (app.py 278) serves each request in a    *)
(* thread of its own, and every request handler calls the one              *)
(* prediction_service of the module (app.py 30), whose detector and disk   *)
(* predictor keep what they fitted in their attributes.  Nothing locks     *)
(* them.  A thread is followed through the statements that write or read   *)
(* those attributes: the fit, and what is computed from the fitted state.  *)

Threads == {1, 2}

\* the request of a thread before its first statement
Started(op, asset) ==
    [op |-> op, asset_id |-> asset, pc |-> "start", baseline |-> <<>>,
     recent |-> <<>>, fitted |-> Null, result |-> Null, ret |-> Null]

ThreadOps == {"run_anomaly_detection", "run_disk_prediction"}

\* a1 and a2 have ten recent samples each, of any kind; one thread serves a
\* request about a1 and the other one about a2
InitThreads ==
    /\ telemetries \in
           {[a \in AssetIds |-> IF a = "a1" THEN h1 ELSE h2] :
               h1, h2 \in Histories({"idle", "fast", "medium", "slow", "noisy"},
                                    {<<0, 10>>})}
    /\ assets = <<AssetDoc("a1"), AssetDoc("a2")>>
    /\ ml_predictions = <<>>
    /\ alerts = <<>>
    /\ anomaly_detector = NewDetector
    /\ request = "idle"
    /\ pc = "idle"
    /\ asset_id = NoAsset
    /\ baseline_data = NoFrame
    /\ results = Null
    /\ sweep = NoSweep
    /\ returned = NotReturned
    /\ call = NoCall
    /\ attempts = <<>>
    /\ workload = <<>>
    /\ n_inserts = 0
    /\ n_faults = 0
    /\ marks = <<>>
    /\ given = Null
    /\ answer = Null
    /\ threads \in {<<Started(op1, "a1"), Started(op2, "a2")>> : op1, op2 \in ThreadOps}
    /\ disk_predictor = Null

\* what a thread leaves alone
ThreadFrame ==
    UNCHANGED <<telemetries, assets, request, pc, asset_id, baseline_data, results,
                sweep, returned, call, attempts, workload, n_inserts, n_faults,
                marks, given, answer>>

\* the thread returns from its run_* call with effect e
Return(t, e) ==
    /\ ml_predictions' = insert_one(ml_predictions, e.preds)
    /\ alerts' = insert_one(alerts, e.alerts)
    /\ threads' = [threads EXCEPT ![t].pc = "done", ![t].result = e.result,
                                  ![t].ret = e.ret]

\* run_anomaly_detection up to the end of train_baseline: both fetches, and
\* the scaler and model of the shared detector fitted on the baseline
TrainBaseline(t) ==
    /\ threads[t].op = "run_anomaly_detection"
    /\ threads[t].pc = "start"
    /\ LET asset    == threads[t].asset_id
           baseline == get_telemetry_data(asset, BASELINE_HOURS, {})
           recent   == get_telemetry_data(asset, RECENT_HOURS, {})
           trained  == IF Len(baseline) >= BASELINE_MIN_POINTS
                       THEN train_baseline(anomaly_detector, baseline)
                       ELSE [ok |-> TRUE, detector |-> anomaly_detector]
       IN  IF \/ Len(baseline) < MINIMUM_DATA_POINTS
              \/ Len(recent) < MIN_RECENT_POINTS
              \/ ~trained.ok
           THEN \* returns before anything is scored
                /\ Return(t, run_anomaly_detection(
                                 asset, baseline, recent,
                                 detect_anomalies(anomaly_detector, recent, baseline),
                                 {}))
                /\ anomaly_detector' = anomaly_detector
           ELSE /\ anomaly_detector' = trained.detector
                /\ threads' = [threads EXCEPT ![t].pc = "fitted",
                                              ![t].baseline = baseline,
                                              ![t].recent = recent]
                /\ UNCHANGED <<ml_predictions, alerts>>
    /\ UNCHANGED disk_predictor
    /\ ThreadFrame

\* the rest of detect_anomalies and of run_anomaly_detection: the recent
\* window is scaled and labelled with the detector's scaler and model as
\* they are now, and the result is saved
ScoreRecent(t) ==
    /\ threads[t].op = "run_anomaly_detection"
    /\ threads[t].pc = "fitted"
    /\ Return(t, run_anomaly_detection(
                     threads[t].asset_id, threads[t].baseline, threads[t].recent,
                     detect_anomalies(anomaly_detector, threads[t].recent, <<>>),
                     {}))
    /\ UNCHANGED <<anomaly_detector, disk_predictor>>
    /\ ThreadFrame

\* predict_disk_full_date between reading coef_ and its return, for the line
\* read from the shared model and the confidence, last time and last usage
\* the thread computed from its own window
prediction_from(line, own) ==
    LET m == [line EXCEPT !.x_last = own.x_last, !.y_last = own.y_last]
    IN  IF ~SlopePositive(line)
        THEN [success |-> TRUE, message |-> "Disk usage stable or decreasing",
              days_remaining |-> Some(9990),
              confidence |-> Confidence100(own), trend |-> "stable"]
        ELSE [success |-> TRUE, message |-> "Disk predicted to be full",
              days_remaining |-> Some(DaysToFull10(m)),
              confidence |-> Confidence100(own), trend |-> Trend(line),
              daily_increase_rate |->
                  RoundDiv(2400 * line.slope.num, line.unit * line.slope.den),
              current_usage |-> RoundDiv(10 * own.y_last, own.unit)]

\* run_disk_prediction up to the confidence check of predict_disk_full_date:
\* the fetch, the shared model fitted on the window, and its score
FitLine(t) ==
    /\ threads[t].op = "run_disk_prediction"
    /\ threads[t].pc = "start"
    /\ LET asset          == threads[t].asset_id
           telemetry_data == get_telemetry_data(asset, BASELINE_HOURS, {})
           df             == prepare_data(telemetry_data)
       IN  IF \/ Len(telemetry_data) < MINIMUM_DATA_POINTS
              \/ df = None
              \/ HasGap(df, "disk_usage_percent")
           THEN \* returns before the model is fitted
                /\ Return(t, run_disk_prediction(asset, telemetry_data,
                                                 predict_disk_full_date(telemetry_data),
                                                 {}))
                /\ UNCHANGED disk_predictor
           ELSE LET m == LinearRegression_fit(df, 1)
                IN  /\ disk_predictor' = m
                    /\ IF ConfidenceBelowFloor(m)
                       THEN Return(t, run_disk_prediction(
                                          asset, telemetry_data,
                                          predict_disk_full_date(telemetry_data), {}))
                       ELSE /\ threads' = [threads EXCEPT ![t].pc = "fitted",
                                                          ![t].baseline = telemetry_data,
                                                          ![t].fitted = m]
                            /\ UNCHANGED <<ml_predictions, alerts>>
    /\ UNCHANGED anomaly_detector
    /\ ThreadFrame

\* the rest of predict_disk_full_date and of run_disk_prediction: coef_ and
\* intercept_ are read from the model as it is now
ReadCoefficients(t) ==
    /\ threads[t].op = "run_disk_prediction"
    /\ threads[t].pc = "fitted"
    /\ Return(t, run_disk_prediction(
                     threads[t].asset_id, threads[t].baseline,
                     prediction_from(disk_predictor, threads[t].fitted), {}))
    /\ UNCHANGED <<anomaly_detector, disk_predictor>>
    /\ ThreadFrame

NextThreads ==
    \E t \in Threads :
        \/ TrainBaseline(t)
        \/ ScoreRecent(t)
        \/ FitLine(t)
        \/ ReadCoefficients(t)

SpecThreads == InitThreads /\ [][NextThreads]_vars

\* ---------------------------------------------------------------------
\* C30
\* ---------------------------------------------------------------------

\* what the analyzer gives for the asset's windows when nothing overlaps the
\* call
AloneResult(op, asset) ==
    IF op = "run_anomaly_detection"
    THEN detect_anomalies(NewDetector,
                          get_telemetry_data(asset, RECENT_HOURS, {}),
                          get_telemetry_data(asset, BASELINE_HOURS, {})).result
    ELSE predict_disk_full_date(get_telemetry_data(asset, BASELINE_HOURS, {}))

\* C30: of two requests for different assets served at once, each gets the
\* anomaly or disk result computed with the scaler and model fitted on its
\* own asset's window, that is, the result it gets when served alone.
C30_OwnModelUnderOverlap ==
    \A t \in DOMAIN threads :
        threads[t].pc = "done" =>
            threads[t].result = AloneResult(threads[t].op, threads[t].asset_id)

====
